---- MODULE Spec2Model ----
(***************************************************************************)
(* A model of theflywheel/phash: a persistent open-addressing hash table   *)
(* kept in one memory-mapped file (src/phash.go).                          *)
(*                                                                         *)
(* Files are byte sequences, the header is encoded and decoded big-endian  *)
(* as the code does it, hashKey is the 32-bit FNV-1a of the key bytes, and *)
(* Open, Put, Get, Close and resize are translated statement by statement. *)
(* Every call takes the handle's RWMutex as its first step; the steps of a *)
(* call are separate actions so that other threads can be scheduled        *)
(* between them.                                                           *)
(***************************************************************************)
EXTENDS Integers, Sequences, FiniteSets, TLC

(***************************************************************************)
(* Bounds of the model.                                                    *)
(***************************************************************************)
\* Number of threads that call into one handle.
NumThreads == 2

\* Capacity of a freshly created table.  The code uses 1024
\* (src/phash.go:89); the model scales it down so that the 0.7 load factor
\* is hit, and the table doubled, after a handful of Puts.
initialSlots == 2

(***************************************************************************)
(* Program constants (src/phash.go:45-49, 416-419).                        *)
(***************************************************************************)
\* 0x70687368, "phsh"
magicNumber == 1885893480
version == 1
headerSize == 28
\* offset32 = 2166136261 = 0x811C9DC5 does not fit a TLC integer: it is kept
\* as two 16-bit halves.
offset32Hi == 33052
offset32Lo == 40389
prime32 == 16777619

Threads == 1..NumThreads

(***************************************************************************)
(* Inputs.  Keys and values are byte strings; the sets hold keys of every  *)
(* declared size, keys that share a home slot, and strings of a wrong      *)
(* length.                                                                 *)
(***************************************************************************)
KeySizes == {1, 2}
ValueSizes == {0, 1}
InputKeys == {<<0>>, <<1>>, <<4>>, <<1, 1>>, <<2, 0>>}
InputValues == {<< >>, <<5>>, <<6>>}

(***************************************************************************)
(* Bytes, slices, encoding/binary.BigEndian.                               *)
(***************************************************************************)
\* data[off] with Go's 0-based offsets
ByteAt(d, off) == d[off + 1]

\* data[lo:hi]
Slice(d, lo, hi) == SubSeq(d, lo + 1, hi)

\* copy(d[off:], src): copies min(len(d)-off, len(src)) bytes
CopyAt(d, off, src) ==
    [i \in 1..Len(d) |->
        IF (i - 1 >= off) /\ (i - 1 < off + Len(src)) THEN src[i - off] ELSE d[i]]

\* binary.BigEndian.PutUint32
PutUint32(v) ==
    << (v \div 16777216) % 256, (v \div 65536) % 256, (v \div 256) % 256, v % 256 >>

\* binary.BigEndian.Uint32 of the 4 bytes at off
Uint32(d, off) ==
    ((ByteAt(d, off) * 256 + ByteAt(d, off + 1)) * 256 + ByteAt(d, off + 2)) * 256
        + ByteAt(d, off + 3)

Zeros(n) == [i \in 1..n |-> 0]

(***************************************************************************)
(* uint32 arithmetic of the sizes (src/phash.go:93, 287).  A product is    *)
(* taken modulo 2^32 and kept as 16-bit halves <<high, low>>, so that no   *)
(* intermediate value needs more than 31 bits.  The factors are below      *)
(* 2^31.                                                                   *)
(***************************************************************************)
\* a * b in uint32
Mul32(a, b) ==
    LET a1 == a \div 65536
        a0 == a % 65536
        b1 == b \div 65536
        b0 == b % 65536
        p  == a0 * (b0 % 256)
        q  == a0 * (b0 \div 256)
        s  == p + (q % 256) * 256
        cross == ((a1 * b0) % 65536) + ((a0 * b1) % 65536)
    IN  << ((q \div 256) + (s \div 65536) + cross) % 65536, s % 65536 >>

\* h + c in uint32, for a small c
Add32(h, c) ==
    << (h[1] + ((h[2] + c) \div 65536)) % 65536, (h[2] + c) % 65536 >>

\* the value of a uint32 below 2^31 given as halves
Int32(h) == h[1] * 65536 + h[2]

\* int64(headerSize + numSlots*slotSize), the product and the sum in uint32
TableSize(numSlots, slotSize) == Int32(Add32(Mul32(numSlots, slotSize), headerSize))

(***************************************************************************)
(* hashKey: 32-bit FNV-1a (src/phash.go:425-432).  A uint32 is the pair    *)
(* <<high 16 bits, low 16 bits>>, so that the multiplication modulo 2^32   *)
(* stays inside TLC's integers.                                            *)
(***************************************************************************)
RECURSIVE XorBits(_, _, _)
\* bitwise XOR of the low n bits of a and b
XorBits(a, b, n) ==
    IF n = 0 THEN 0
    ELSE (((a % 2) + (b % 2)) % 2) + 2 * XorBits(a \div 2, b \div 2, n - 1)

\* hash ^= uint32(b)
HashXor(h, b) == << h[1], (h[2] \div 256) * 256 + XorBits(h[2] % 256, b, 8) >>

\* hash *= prime32, modulo 2^32: prime32 = 2^24 + (prime32 % 2^24)
HashMul(h) ==
    LET low   == prime32 % 16777216
        lo    == h[2] * low
        carry == lo \div 65536
    IN  << ((h[1] * low) + carry + ((h[2] % 256) * 256)) % 65536, lo % 65536 >>

\* a mutant: multiply first, then XOR (FNV-1, not FNV-1a)
RECURSIVE HashFrom_MulFirst(_, _, _)
HashFrom_MulFirst(h, key, i) ==
    IF i > Len(key) THEN h
    ELSE HashFrom_MulFirst(HashXor(HashMul(h), key[i]), key, i + 1)

RECURSIVE HashFrom(_, _, _)
HashFrom(h, key, i) ==
    IF i > Len(key) THEN h
    ELSE HashFrom(HashMul(HashXor(h, key[i])), key, i + 1)

hashKey(key) == HashFrom(<<offset32Hi, offset32Lo>>, key, 1)

\* hash % n for a uint32 hash given as halves
HashMod(h, n) == ((h[1] % n) * (65536 % n) + (h[2] % n)) % n

(***************************************************************************)
(* The load-factor test of putWithRetry (src/phash.go:207-208):            *)
(*     float32(usedSlots+1) / float32(numSlots) > 0.7                      *)
(* computed in IEEE-754 single precision, round to nearest even.           *)
(***************************************************************************)
RECURSIVE Float32Exp(_, _)
\* the power of two by which an integer x >= 2^24 is scaled to 24 bits
Float32Exp(x, unit) ==
    IF x \div unit < 16777216 THEN unit ELSE Float32Exp(x, unit * 2)

\* float32(x) of an unsigned integer, as the integer it denotes
Float32(x) ==
    LET unit == Float32Exp(x, 1)
        q    == x \div unit
        r    == x % unit
        up   == (2 * r > unit) \/ (2 * r = unit /\ q % 2 = 1)
    IN  (IF up THEN q + 1 ELSE q) * unit

RECURSIVE FracGE(_, _, _, _)
\* a/b >= p/q for b, q > 0, by continued fractions (no product is formed)
FracGE(a, b, p, q) ==
    LET ia == a \div b
        ip == p \div q
        ra == a % b
        rp == p % q
    IN  IF ia # ip THEN ia > ip
        ELSE IF rp = 0 THEN TRUE
        ELSE IF ra = 0 THEN FALSE
        ELSE FracGE(q, rp, b, ra)

\* a mutant: every insert finds the table too full
LoadFactorExceeded_Always(used, slots) == TRUE

\* a mutant: the table is never found too full
LoadFactorExceeded_Never(used, slots) == FALSE

\* float32(0.7) is 11744051 * 2^-24.  The single-precision quotient of two
\* floats exceeds it exactly when the exact quotient is at least half an ulp
\* above it (the tie rounds to the even neighbour 11744052 * 2^-24), that
\* is when it is >= 23488103 / 2^25.
LoadFactorExceeded(used, slots) ==
    FracGE(Float32(used + 1), Float32(slots), 23488103, 33554432)

(***************************************************************************)
(* The file system and the process's descriptors and mappings.             *)
(*   dir    path -> inode, NoIno when the path does not exist              *)
(*   alloc  the inodes that exist                                          *)
(*   ino    inode -> the file's bytes                                      *)
(*   fds    inode -> number of open descriptors on it                      *)
(*   maps   inode -> number of live mappings of it                         *)
(* A MAP_SHARED mapping is the file: reads and writes through the mapping  *)
(* are reads and writes of ino.                                            *)
(***************************************************************************)
\* ph.filePath and ph.filePath + ".tmp" (src/phash.go:274)
filePath == "path"
tmpPath == "path.tmp"
Paths == {filePath, tmpPath}

NoIno == 0
InoIds == 1..3

\* the lowest inode number not in use
FreeIno(w) == CHOOSE i \in InoIds \ w.alloc : \A j \in InoIds \ w.alloc : i <= j

\* an inode with no link, no descriptor and no mapping is gone
Reap(w) ==
    LET keep == {i \in w.alloc :
                    (\E p \in Paths : w.dir[p] = i) \/ w.fds[i] > 0 \/ w.maps[i] > 0}
    IN  [w EXCEPT !.alloc = keep,
                  !.ino = [i \in InoIds |-> IF i \in keep THEN w.ino[i] ELSE << >>]]

\* os.OpenFile(path, O_RDWR|O_CREATE, 0644)
OsOpenCreate(w, path) ==
    IF w.dir[path] # NoIno
    THEN [w EXCEPT !.fds[w.dir[path]] = @ + 1]
    ELSE LET i == FreeIno(w)
         IN  [w EXCEPT !.dir[path] = i, !.alloc = @ \cup {i}, !.ino[i] = << >>,
                       !.fds[i] = @ + 1]

\* os.Remove(path); the error for a missing path is ignored by the callers
OsRemove(w, path) == Reap([w EXCEPT !.dir[path] = NoIno])

\* os.Rename(from, to)
OsRename(w, from, to) == Reap([w EXCEPT !.dir[to] = w.dir[from], !.dir[from] = NoIno])

\* file.Truncate(size): cut, or extend with zero bytes
FileTruncate(w, i, size) ==
    [w EXCEPT !.ino[i] = [k \in 1..size |-> IF k <= Len(@) THEN @[k] ELSE 0]]

\* file.WriteAt(bytes, off) inside the file's size
FileWriteAt(w, i, bytes, off) == [w EXCEPT !.ino[i] = CopyAt(@, off, bytes)]

\* file.Close()
FileClose(w, i) == Reap([w EXCEPT !.fds[i] = @ - 1])

\* syscall.Mmap(fd, 0, size, PROT_READ|PROT_WRITE, MAP_SHARED)
Mmap(w, i) == [w EXCEPT !.maps[i] = @ + 1]

\* syscall.Munmap(data)
Munmap(w, i) == Reap([w EXCEPT !.maps[i] = @ - 1])

\* fi.Size()
FileSize(w, i) == Len(w.ino[i])

(***************************************************************************)
(* The header (src/phash.go:104-111, 295-302).                             *)
(***************************************************************************)
\* a mutant: keySize and valueSize are written to each other's field
EncodeHeader_SizesSwapped(numSlots, usedSlots, slotSize, keySize, valueSize) ==
    PutUint32(magicNumber) \o PutUint32(version) \o PutUint32(numSlots)
        \o PutUint32(usedSlots) \o PutUint32(slotSize) \o PutUint32(valueSize)
        \o PutUint32(keySize)

EncodeHeader(numSlots, usedSlots, slotSize, keySize, valueSize) ==
    PutUint32(magicNumber) \o PutUint32(version) \o PutUint32(numSlots)
        \o PutUint32(usedSlots) \o PutUint32(slotSize) \o PutUint32(keySize)
        \o PutUint32(valueSize)

(***************************************************************************)
(* The handle, PersistentHash (src/phash.go:56-66).  file is the open      *)
(* descriptor and data the mapping, each named by its inode; open and live *)
(* turn false when the descriptor is closed or the mapping unmapped, while *)
(* the Go fields keep their stale values.                                  *)
(***************************************************************************)
NoHandle == [none |-> TRUE]

\* the mapped bytes of a handle
Data(w, h) == w.ino[h.data.ino]

(***************************************************************************)
(* Open (src/phash.go:69-164).  The result is the file system afterwards,  *)
(* the handle, and how the call ended: "ok", "error" or "panic" (an index  *)
(* or slice bound out of range while reading the header).                  *)
(***************************************************************************)
\* a mutant: every file is taken for a new one and gets a fresh header
IsNewFile_Always(size) == TRUE

\* fi.Size() == 0: the file is new and gets a header
IsNewFile(size) == size = 0

\* the new file's size and header, for a table of slots slots
OpenInitSlots(w, i, keySize, valueSize, slots) ==
    LET slotSize == 1 + keySize + valueSize
        fileSize == TableSize(slots, slotSize)
    IN  FileWriteAt(FileTruncate(w, i, fileSize), i,
                    EncodeHeader(slots, 0, slotSize, keySize, valueSize), 0)

OpenInit(w, i, keySize, valueSize) ==
    OpenInitSlots(w, i, keySize, valueSize, initialSlots)

\* the magic number read from the mapping matches
MagicOk(d) == Uint32(d, 0) = magicNumber

\* a mutant: the descriptor is closed but the mapping is left behind
OpenReject_NoMunmap(w, i) == FileClose(w, i)

\* a bad magic number: syscall.Munmap(data); file.Close()
OpenReject(w, i) == FileClose(Munmap(w, i), i)

\* Open(path, keySize, valueSize), creating a new table with slots slots
OpenCallPath(w0, path, keySize, valueSize, slots) ==
    LET w1 == OsOpenCreate(w0, path)
        i  == w1.dir[path]
        w2 == IF IsNewFile(FileSize(w1, i))
              THEN OpenInitSlots(w1, i, keySize, valueSize, slots)
              ELSE w1
        size == FileSize(w2, i)
        w3 == Mmap(w2, i)
        d  == w3.ino[i]
    IN  IF size = 0
        THEN [w |-> FileClose(w2, i), h |-> NoHandle, res |-> "error"]
        ELSE IF size < 4
        THEN [w |-> w3, h |-> NoHandle, res |-> "panic"]
        ELSE IF ~MagicOk(d)
        THEN [w |-> OpenReject(w3, i), h |-> NoHandle, res |-> "error"]
        ELSE IF size < headerSize
        THEN [w |-> w3, h |-> NoHandle, res |-> "panic"]
        ELSE [w |-> w3,
              h |-> [file      |-> [ino |-> i, open |-> TRUE],
                     data      |-> [ino |-> i, len |-> size, live |-> TRUE],
                     numSlots  |-> Uint32(d, 8),
                     usedSlots |-> Uint32(d, 12),
                     slotSize  |-> Uint32(d, 16),
                     keySize   |-> Uint32(d, 20),
                     valueSize |-> Uint32(d, 24)],
              res |-> "ok"]

\* Open of the table at filePath
OpenCallSlots(w0, keySize, valueSize, slots) ==
    OpenCallPath(w0, filePath, keySize, valueSize, slots)

OpenCall(w0, keySize, valueSize) == OpenCallSlots(w0, keySize, valueSize, initialSlots)

(***************************************************************************)
(* Get (src/phash.go:239-267), without the lock.  The result is            *)
(* [st, found, val]: st is "ok", or "panic" for an index out of range or a *)
(* division by zero, or "fault" for a read of an unmapped region.          *)
(***************************************************************************)
Miss == [st |-> "ok", found |-> FALSE, val |-> << >>]
Hit(v) == [st |-> "ok", found |-> TRUE, val |-> v]
Panic == [st |-> "panic", found |-> FALSE, val |-> << >>]
Fault == [st |-> "fault", found |-> FALSE, val |-> << >>]

\* headerSize + currentIdx*slotSize
SlotStart(h, currentIdx) == headerSize + currentIdx * h.slotSize

\* a mutant: the compared slice starts at the status byte
KeyEqual_Shifted(d, h, slotStart, key) ==
    key = Slice(d, slotStart, slotStart + h.keySize)

\* bytes.Equal(key, data[slotStart+1 : slotStart+1+keySize])
KeyEqual(d, h, slotStart, key) ==
    key = Slice(d, slotStart + 1, slotStart + 1 + h.keySize)

\* val := make([]byte, valueSize); copy(val, data[slotStart+1+keySize : slotStart+slotSize])
ValueCopy(d, h, slotStart) ==
    CopyAt(Zeros(h.valueSize), 0,
           Slice(d, slotStart + 1 + h.keySize, slotStart + h.slotSize))

\* a mutant: only the home slot is examined
GetProbe_HomeOnly(d, h, key, idx, i) ==
    LET slotStart == SlotStart(h, idx % h.numSlots)
    IN  IF slotStart + h.slotSize > Len(d) THEN Panic
        ELSE IF ByteAt(d, slotStart) = 1 /\ KeyEqual(d, h, slotStart, key)
        THEN Hit(ValueCopy(d, h, slotStart))
        ELSE Miss

RECURSIVE GetProbe(_, _, _, _, _)
GetProbe(d, h, key, idx, i) ==
    IF i >= h.numSlots THEN Miss
    ELSE LET slotStart == SlotStart(h, (idx + i) % h.numSlots)
         IN  IF slotStart >= Len(d) THEN Panic
             ELSE IF ByteAt(d, slotStart) = 0 THEN Miss
             ELSE IF ByteAt(d, slotStart) = 1
             THEN IF slotStart + h.slotSize > Len(d) THEN Panic
                  ELSE IF KeyEqual(d, h, slotStart, key)
                  THEN Hit(ValueCopy(d, h, slotStart))
                  ELSE GetProbe(d, h, key, idx, i + 1)
             ELSE GetProbe(d, h, key, idx, i + 1)

Get(w, h, key) ==
    IF Len(key) # h.keySize THEN Miss
    ELSE IF h.numSlots = 0 THEN Panic
    ELSE IF ~h.data.live THEN Fault
    ELSE \* idx is computed once, as the code's local is
         CHOOSE r \in {GetProbe(Data(w, h), h, key, idx, 0) :
                          idx \in {HashMod(hashKey(key), h.numSlots)}} : TRUE

(***************************************************************************)
(* Put and putWithRetry (src/phash.go:178-236).                            *)
(***************************************************************************)
\* a mutant: the value's length is not checked
ValidSizes_KeyOnly(h, key, value) == Len(key) = h.keySize

\* the length check of Put
\* a mutant: a value of no bytes is refused
ValidSizes_NonEmptyValue(h, key, value) ==
    Len(key) = h.keySize /\ Len(value) = h.valueSize /\ Len(value) > 0

ValidSizes(h, key, value) == Len(key) = h.keySize /\ Len(value) = h.valueSize

RECURSIVE PutProbe_NoMatch(_, _, _, _, _)
\* a mutant: the probe loop does not compare keys
PutProbe_NoMatch(d, h, key, idx, i) ==
    IF i >= h.numSlots THEN [kind |-> "full", slotStart |-> 0]
    ELSE LET slotStart == headerSize + ((idx + i) % h.numSlots) * h.slotSize
         IN  IF slotStart >= Len(d) THEN [kind |-> "panic", slotStart |-> slotStart]
             ELSE IF d[slotStart + 1] = 0
             THEN [kind |-> "empty", slotStart |-> slotStart]
             ELSE PutProbe_NoMatch(d, h, key, idx, i + 1)

RECURSIVE PutProbe(_, _, _, _, _)
\* the probe loop: the first empty slot, or the slot holding the key
PutProbe(d, h, key, idx, i) ==
    IF i >= h.numSlots THEN [kind |-> "full", slotStart |-> 0]
    ELSE LET slotStart == SlotStart(h, (idx + i) % h.numSlots)
         IN  IF slotStart >= Len(d) THEN [kind |-> "panic", slotStart |-> slotStart]
             ELSE IF ByteAt(d, slotStart) = 0
             THEN [kind |-> "empty", slotStart |-> slotStart]
             ELSE IF ByteAt(d, slotStart) = 1 /\ slotStart + h.slotSize > Len(d)
             THEN [kind |-> "panic", slotStart |-> slotStart]
             ELSE IF ByteAt(d, slotStart) = 1 /\ KeyEqual(d, h, slotStart, key)
             THEN [kind |-> "match", slotStart |-> slotStart]
             ELSE PutProbe(d, h, key, idx, i + 1)

\* a mutant: the value is not copied into the slot
WriteSlot_NoValue(d, keySize, slotStart, key, value) ==
    [CopyAt(d, slotStart + 1, key) EXCEPT ![slotStart + 1] = 1]

\* copy key and value into the slot and mark it occupied
WriteSlot(d, keySize, slotStart, key, value) ==
    [CopyAt(CopyAt(d, slotStart + 1, key), slotStart + 1 + keySize, value)
        EXCEPT ![slotStart + 1] = 1]

\* a mutant: the value is copied from the slot's first byte on
WriteValue_FromStatus(d, keySize, slotStart, value) == CopyAt(d, slotStart, value)

\* copy(ph.data[slotStart+1+ph.keySize:], value)
WriteValue(d, keySize, slotStart, value) == CopyAt(d, slotStart + 1 + keySize, value)

(***************************************************************************)
(* resize (src/phash.go:269-414).                                          *)
(***************************************************************************)
\* a mutant: the capacity is tripled
NewNumSlots_Triple(h) == h.numSlots * 3

\* newNumSlots := ph.numSlots * 2
NewNumSlots(h) == h.numSlots * 2

\* os.Remove(tmpPath); os.Create(tmpPath); Truncate; WriteAt(header); Sync; Mmap
ResizeCreate(w0, h) ==
    LET w1 == OsRemove(w0, tmpPath)
        w2 == OsOpenCreate(w1, tmpPath)
        i  == w2.dir[tmpPath]
        w3 == FileTruncate(w2, i, TableSize(NewNumSlots(h), h.slotSize))
        w4 == FileWriteAt(w3, i,
                  EncodeHeader(NewNumSlots(h), 0, h.slotSize, h.keySize, h.valueSize), 0)
    IN  Mmap(w4, i)

\* a mutant: the home slot is taken modulo the old capacity
RehashHome_OldSlots(h, key, newNumSlots) == HashMod(hashKey(key), h.numSlots)

\* idx := hash % newNumSlots
RehashHome(h, key, newNumSlots) == HashMod(hashKey(key), newNumSlots)

\* a mutant: the scan for an empty slot starts at slot 0, not at the home slot
RehashProbe_FromZero(tmpData, newSlotSize, newNumSlots, idx, j) ==
    LET free == {a \in 0..(newNumSlots - 1) :
                    ByteAt(tmpData, headerSize + a * newSlotSize) = 0}
    IN  IF free = {} THEN -1
        ELSE headerSize + (CHOOSE a \in free : \A b \in free : a <= b) * newSlotSize

RECURSIVE RehashProbe(_, _, _, _, _)
\* the first empty slot of the new table from idx on, -1 when there is none
RehashProbe(tmpData, newSlotSize, newNumSlots, idx, j) ==
    IF j >= newNumSlots THEN -1
    ELSE LET newSlotStart == headerSize + ((idx + j) % newNumSlots) * newSlotSize
         IN  IF ByteAt(tmpData, newSlotStart) = 0 THEN newSlotStart
             ELSE RehashProbe(tmpData, newSlotSize, newNumSlots, idx, j + 1)

\* a mutant: the new header's usedSlots is not incremented
RehashEntry_NoCount(d, h, tmpData, newNumSlots, i) ==
    LET slotStart == SlotStart(h, i)
        key   == Slice(d, slotStart + 1, slotStart + 1 + h.keySize)
        value == Slice(d, slotStart + 1 + h.keySize, slotStart + h.slotSize)
        at    == RehashProbe(tmpData, h.slotSize, newNumSlots,
                             RehashHome(h, key, newNumSlots), 0)
    IN  IF at < 0 THEN << >>
        ELSE WriteSlot(tmpData, h.keySize, at, key, value)

\* one occupied slot of the old table copied into the new one: the new
\* bytes, or << >> when no slot was found
RehashEntry(d, h, tmpData, newNumSlots, i) ==
    LET slotStart == SlotStart(h, i)
        key   == Slice(d, slotStart + 1, slotStart + 1 + h.keySize)
        value == Slice(d, slotStart + 1 + h.keySize, slotStart + h.slotSize)
        Counted(put) == CopyAt(put, 12, PutUint32(Uint32(put, 12) + 1))
        Place(at) ==
            IF at < 0 THEN << >>
            ELSE CHOOSE n \in {Counted(put) :
                       put \in {WriteSlot(tmpData, h.keySize, at, key, value)}} : TRUE
    IN  \* at and put are computed once, as the code's locals are
        CHOOSE n \in {Place(at) :
                  at \in {RehashProbe(tmpData, h.slotSize, newNumSlots,
                                      RehashHome(h, key, newNumSlots), 0)}} : TRUE

(***************************************************************************)
(* State.                                                                  *)
(*   fs      the file system, descriptors and mappings                     *)
(*   ph      the handle Open returned, NoHandle when there is none         *)
(*   life    what the caller may do with ph: "none", "open", "closed"      *)
(*   proc    "running", or "panicked" once a call has panicked or faulted  *)
(*   mu      ph.mu: the writer holding it (NoThread for none), the readers *)
(*   pc      each thread's position inside its current call                *)
(*   loc     each thread's arguments, locals and result                    *)
(*   opened  how the last Open ended and what it was called with           *)
(*   stored  history: per key, the result of the last Put that returned    *)
(*           success, as the Get result it promises                        *)
(*   hist    history: the Get results at the last Close, until the next Put*)
(***************************************************************************)
VARIABLES fs, ph, life, proc, mu, pc, loc, opened, stored, hist

vars == <<fs, ph, life, proc, mu, pc, loc, opened, stored, hist>>

NoThread == 0

\* the occupied slots of a table, as <<key, value>> pairs
Entries(d, h) ==
    {<<Slice(d, SlotStart(h, i) + 1, SlotStart(h, i) + 1 + h.keySize),
       Slice(d, SlotStart(h, i) + 1 + h.keySize, SlotStart(h, i) + h.slotSize)>> :
        i \in {j \in 0..(h.numSlots - 1) : ByteAt(d, SlotStart(h, j)) = 1}}

LocIdle ==
    [key |-> << >>, value |-> << >>, retry |-> 0, err |-> "none", got |-> Miss,
     tmp |-> NoIno, newNumSlots |-> 0, i |-> 0, usedCount |-> 0, slotStart |-> 0,
     exp |-> Miss, expOk |-> FALSE, d0 |-> << >>, h0 |-> NoHandle, before |-> {}]

NoSnapshot == [closed |-> FALSE, snap |-> [k \in InputKeys |-> Miss]]

FsEmpty ==
    [dir   |-> [p \in Paths |-> NoIno],
     alloc |-> {},
     ino   |-> [i \in InoIds |-> << >>],
     fds   |-> [i \in InoIds |-> 0],
     maps  |-> [i \in InoIds |-> 0]]

FsWith(bytes) ==
    [FsEmpty EXCEPT !.dir[filePath] = 1, !.alloc = {1}, !.ino[1] = bytes]

\* Files found at the path that this program did not write: an empty file,
\* files shorter than the magic number and than the header, and a table
\* whose magic number is the 0x1A2B3C4D of the format comment
\* (src/phash.go:26).
ForeignFiles ==
    { << >>,
      <<112, 104, 115>>,
      <<1, 2, 3, 4>>,
      <<112, 104, 115, 104, 0, 0, 0, 1>>,
      <<26, 43, 60, 77>> \o SubSeq(EncodeHeader(2, 0, 3, 1, 1), 5, headerSize)
          \o Zeros(6) }

Init ==
    /\ fs \in {FsEmpty} \cup {FsWith(b) : b \in ForeignFiles}
    /\ ph = NoHandle
    /\ life = "none"
    /\ proc = "running"
    /\ mu = [w |-> NoThread, r |-> {}]
    /\ pc = [t \in Threads |-> "idle"]
    /\ loc = [t \in Threads |-> LocIdle]
    /\ opened = [res |-> "none", keySize |-> 0, valueSize |-> 0]
    /\ stored = [k \in InputKeys |-> Miss]
    /\ hist = NoSnapshot

(***************************************************************************)
(* ph.mu, a sync.RWMutex.                                                  *)
(***************************************************************************)
\* a mutant: Lock does not wait for the readers
CanLock_IgnoreReaders == mu.w = NoThread

\* ph.mu.Lock() returns: no writer and no reader holds the mutex
CanLock == mu.w = NoThread /\ mu.r = {}

\* a mutant: Get does not wait for the writer
CanRLock_NoLock == TRUE

\* a mutant: Get takes the mutex in exclusive mode
CanRLock_Exclusive == mu.w = NoThread /\ mu.r = {}

\* ph.mu.RLock() returns: no writer holds the mutex
CanRLock == mu.w = NoThread

GetPcs == {"get_read", "get_ret"}
PutPcs == {"put_validate", "put_try", "put_count", "rs_create", "rs_rehash",
           "rs_unmap", "rs_rename", "rs_reopen", "put_ret"}
ClosePcs == {"close_unmap", "close_ret"}

SetData(w, h, d) == [w EXCEPT !.ino[h.data.ino] = d]

(***************************************************************************)
(* Open: called when the caller holds no open handle.                      *)
(***************************************************************************)
Open(keySize, valueSize) ==
    /\ proc = "running"
    /\ life \in {"none", "closed"}
    /\ \A t \in Threads : pc[t] = "idle"
    /\ LET r == OpenCall(fs, keySize, valueSize)
       IN  /\ fs' = r.w
           /\ ph' = r.h
           /\ life' = IF r.res = "ok" THEN "open" ELSE "none"
           /\ proc' = IF r.res = "panic" THEN "panicked" ELSE proc
           /\ opened' = [res |-> r.res, keySize |-> keySize, valueSize |-> valueSize]
    /\ UNCHANGED <<mu, pc, loc, stored, hist>>

(***************************************************************************)
(* Get (src/phash.go:239-267).                                             *)
(***************************************************************************)
GetRLock(t, key) ==
    /\ proc = "running"
    /\ life = "open"
    /\ pc[t] = "idle"
    /\ CanRLock
    /\ mu' = [mu EXCEPT !.r = @ \cup {t}]
    /\ pc' = [pc EXCEPT ![t] = "get_read"]
    /\ loc' = [loc EXCEPT ![t] = [LocIdle EXCEPT !.key = key, !.exp = stored[key],
                                                 !.expOk = TRUE]]
    /\ UNCHANGED <<fs, ph, life, proc, opened, stored, hist>>

GetRead(t) ==
    /\ proc = "running"
    /\ pc[t] = "get_read"
    /\ \E r \in {Get(fs, ph, loc[t].key)} :
           /\ loc' = [loc EXCEPT ![t].got = r]
           /\ proc' = IF r.st = "ok" THEN proc ELSE "panicked"
    /\ pc' = [pc EXCEPT ![t] = "get_ret"]
    /\ UNCHANGED <<fs, ph, life, mu, opened, stored, hist>>

GetRet(t) ==
    /\ proc = "running"
    /\ pc[t] = "get_ret"
    /\ mu' = [mu EXCEPT !.r = @ \ {t}]
    /\ pc' = [pc EXCEPT ![t] = "idle"]
    /\ loc' = [loc EXCEPT ![t] = LocIdle]
    /\ UNCHANGED <<fs, ph, life, proc, opened, stored, hist>>

(***************************************************************************)
(* Put (src/phash.go:178-236).                                             *)
(***************************************************************************)
PutLock(t, key, value) ==
    /\ proc = "running"
    /\ life = "open"
    /\ pc[t] = "idle"
    /\ CanLock
    /\ mu' = [mu EXCEPT !.w = t]
    /\ pc' = [pc EXCEPT ![t] = "put_validate"]
    /\ loc' = [u \in Threads |->
                 IF u = t
                 THEN [LocIdle EXCEPT !.key = key, !.value = value,
                                      !.d0 = Data(fs, ph), !.h0 = ph]
                 ELSE IF pc[u] \in GetPcs /\ loc[u].key = key
                 THEN [loc[u] EXCEPT !.expOk = FALSE]
                 ELSE loc[u]]
    /\ hist' = NoSnapshot
    /\ UNCHANGED <<fs, ph, life, proc, opened, stored>>

PutValidate(t) ==
    /\ proc = "running"
    /\ pc[t] = "put_validate"
    /\ IF ValidSizes(ph, loc[t].key, loc[t].value)
       THEN /\ pc' = [pc EXCEPT ![t] = "put_try"]
            /\ loc' = loc
       ELSE /\ pc' = [pc EXCEPT ![t] = "put_ret"]
            /\ loc' = [loc EXCEPT ![t].err = "invalid key/value size"]
    /\ UNCHANGED <<fs, ph, life, proc, mu, opened, stored, hist>>

\* putWithRetry up to the write of the slot
PutTry(t) ==
    /\ proc = "running"
    /\ pc[t] = "put_try"
    /\ \E p \in {IF ph.numSlots = 0 \/ ~ph.data.live
                 THEN [kind |-> "panic", slotStart |-> 0]
                 ELSE PutProbe(Data(fs, ph), ph, loc[t].key,
                               HashMod(hashKey(loc[t].key), ph.numSlots), 0)} :
       LET l == loc[t]
           d == Data(fs, ph)
       IN  IF l.retry > 3
           THEN /\ loc' = [loc EXCEPT ![t].err = "exceeded maximum retry count"]
                /\ pc' = [pc EXCEPT ![t] = "put_ret"]
                /\ UNCHANGED <<fs, proc>>
           ELSE IF p.kind = "panic"
           THEN /\ proc' = "panicked"
                /\ UNCHANGED <<fs, pc, loc>>
           ELSE IF p.kind = "full"
           THEN /\ loc' = [loc EXCEPT ![t].err = "hash table full"]
                /\ pc' = [pc EXCEPT ![t] = "put_ret"]
                /\ UNCHANGED <<fs, proc>>
           ELSE IF p.kind = "match"
           THEN /\ fs' = SetData(fs, ph, WriteValue(d, ph.keySize, p.slotStart, l.value))
                /\ loc' = [loc EXCEPT ![t].err = "ok"]
                /\ pc' = [pc EXCEPT ![t] = "put_ret"]
                /\ UNCHANGED proc
           ELSE IF LoadFactorExceeded(ph.usedSlots, ph.numSlots)
           THEN /\ pc' = [pc EXCEPT ![t] = "rs_create"]
                /\ UNCHANGED <<fs, loc, proc>>
           ELSE /\ fs' = SetData(fs, ph,
                            WriteSlot(d, ph.keySize, p.slotStart, l.key, l.value))
                /\ loc' = [loc EXCEPT ![t].slotStart = p.slotStart]
                /\ pc' = [pc EXCEPT ![t] = "put_count"]
                /\ UNCHANGED proc
    /\ UNCHANGED <<ph, life, mu, opened, stored, hist>>

\* ph.usedSlots++; PutUint32(ph.data[12:16], ph.usedSlots); return nil
PutCount(t) ==
    /\ proc = "running"
    /\ pc[t] = "put_count"
    /\ ph' = [ph EXCEPT !.usedSlots = @ + 1]
    /\ fs' = SetData(fs, ph, CopyAt(Data(fs, ph), 12, PutUint32(ph.usedSlots + 1)))
    /\ loc' = [loc EXCEPT ![t].err = "ok"]
    /\ pc' = [pc EXCEPT ![t] = "put_ret"]
    /\ UNCHANGED <<life, proc, mu, opened, stored, hist>>

\* a mutant: Put returns with the lock still held
PutRet_NoUnlock(t) ==
    /\ proc = "running"
    /\ pc[t] = "put_ret"
    /\ stored' = IF loc[t].err = "ok"
                 THEN [stored EXCEPT ![loc[t].key] = Hit(loc[t].value)]
                 ELSE stored
    /\ pc' = [pc EXCEPT ![t] = "idle"]
    /\ loc' = [loc EXCEPT ![t] = LocIdle]
    /\ UNCHANGED <<fs, ph, life, proc, mu, opened, hist>>

\* Put returns: the deferred Unlock
PutRet(t) ==
    /\ proc = "running"
    /\ pc[t] = "put_ret"
    /\ mu' = [mu EXCEPT !.w = NoThread]
    /\ stored' = IF loc[t].err = "ok"
                 THEN [stored EXCEPT ![loc[t].key] = Hit(loc[t].value)]
                 ELSE stored
    /\ pc' = [pc EXCEPT ![t] = "idle"]
    /\ loc' = [loc EXCEPT ![t] = LocIdle]
    /\ UNCHANGED <<fs, ph, life, proc, opened, hist>>

(***************************************************************************)
(* resize, called by putWithRetry with the lock held.                      *)
(***************************************************************************)
\* the temporary file: created, sized, given its header, mapped
RsCreate(t) ==
    /\ proc = "running"
    /\ pc[t] = "rs_create"
    /\ fs' = ResizeCreate(fs, ph)
    /\ loc' = [loc EXCEPT ![t].tmp = fs'.dir[tmpPath],
                          ![t].newNumSlots = NewNumSlots(ph),
                          ![t].i = 0,
                          ![t].usedCount = 0,
                          ![t].before = Entries(Data(fs, ph), ph)]
    /\ pc' = [pc EXCEPT ![t] = "rs_rehash"]
    /\ UNCHANGED <<ph, life, proc, mu, opened, stored, hist>>

\* a mutant: the rehash loop ends before it has copied anything
RsRehash_Nothing(t) ==
    /\ proc = "running"
    /\ pc[t] = "rs_rehash"
    /\ pc' = [pc EXCEPT ![t] = "rs_unmap"]
    /\ UNCHANGED <<fs, ph, life, proc, mu, loc, opened, stored, hist>>

\* one iteration of the rehash loop, or its end
RsRehash(t) ==
    /\ proc = "running"
    /\ pc[t] = "rs_rehash"
    /\ LET l == loc[t]
           d == Data(fs, ph)
           n == RehashEntry(d, ph, fs.ino[l.tmp], l.newNumSlots, l.i)
       IN  IF ~(l.i < ph.numSlots /\ l.usedCount < ph.usedSlots)
           THEN /\ pc' = [pc EXCEPT ![t] = "rs_unmap"]
                /\ UNCHANGED <<fs, loc>>
           ELSE IF ByteAt(d, SlotStart(ph, l.i)) # 1
           THEN /\ loc' = [loc EXCEPT ![t].i = @ + 1]
                /\ UNCHANGED <<fs, pc>>
           ELSE IF n = << >>
           THEN \* no slot found: the deferred Munmap and Close run
                /\ fs' = FileClose(Munmap(fs, l.tmp), l.tmp)
                /\ loc' = [loc EXCEPT ![t].err = "resize failed"]
                /\ pc' = [pc EXCEPT ![t] = "put_ret"]
           ELSE /\ fs' = [fs EXCEPT !.ino[l.tmp] = n]
                /\ loc' = [loc EXCEPT ![t].i = @ + 1, ![t].usedCount = @ + 1]
                /\ UNCHANGED pc
    /\ UNCHANGED <<ph, life, proc, mu, opened, stored, hist>>

\* a mutant: the old mapping and file are kept until after the rename
RsUnmap_Keep(t) ==
    /\ proc = "running"
    /\ pc[t] = "rs_unmap"
    /\ pc' = [pc EXCEPT ![t] = "rs_rename"]
    /\ UNCHANGED <<fs, ph, life, proc, mu, loc, opened, stored, hist>>

\* syscall.Munmap(ph.data); ph.file.Close()
RsUnmap(t) ==
    /\ proc = "running"
    /\ pc[t] = "rs_unmap"
    /\ fs' = FileClose(Munmap(fs, ph.data.ino), ph.file.ino)
    /\ ph' = [ph EXCEPT !.data.live = FALSE, !.file.open = FALSE]
    /\ pc' = [pc EXCEPT ![t] = "rs_rename"]
    /\ UNCHANGED <<life, proc, mu, loc, opened, stored, hist>>

\* os.Rename(tmpPath, ph.filePath)
RsRename(t) ==
    /\ proc = "running"
    /\ pc[t] = "rs_rename"
    /\ fs' = OsRename(fs, tmpPath, filePath)
    /\ pc' = [pc EXCEPT ![t] = "rs_reopen"]
    /\ UNCHANGED <<ph, life, proc, mu, loc, opened, stored, hist>>

\* a mutant: the handle keeps the old numSlots
RsReopen_StaleSlots(t) ==
    /\ proc = "running"
    /\ pc[t] = "rs_reopen"
    /\ LET i  == fs.dir[filePath]
           w1 == Mmap([fs EXCEPT !.fds[i] = @ + 1], i)
       IN  /\ ph' = [ph EXCEPT !.file = [ino |-> i, open |-> TRUE],
                               !.data = [ino |-> i, len |-> FileSize(fs, i),
                                         live |-> TRUE],
                               !.usedSlots = Uint32(fs.ino[i], 12)]
           /\ fs' = FileClose(Munmap(w1, loc[t].tmp), loc[t].tmp)
    /\ loc' = [loc EXCEPT ![t].retry = @ + 1, ![t].tmp = NoIno]
    /\ pc' = [pc EXCEPT ![t] = "put_try"]
    /\ UNCHANGED <<life, proc, mu, opened, stored, hist>>

\* a mutant: the deferred Munmap of tmpData and Close of tmpFile do not run
RsReopen_KeepTmp(t) ==
    /\ proc = "running"
    /\ pc[t] = "rs_reopen"
    /\ LET i  == fs.dir[filePath]
           w1 == Mmap([fs EXCEPT !.fds[i] = @ + 1], i)
       IN  /\ ph' = [ph EXCEPT !.file = [ino |-> i, open |-> TRUE],
                               !.data = [ino |-> i, len |-> FileSize(fs, i),
                                         live |-> TRUE],
                               !.numSlots = loc[t].newNumSlots,
                               !.usedSlots = Uint32(fs.ino[i], 12)]
           /\ fs' = w1
    /\ loc' = [loc EXCEPT ![t].retry = @ + 1, ![t].tmp = NoIno]
    /\ pc' = [pc EXCEPT ![t] = "put_try"]
    /\ UNCHANGED <<life, proc, mu, opened, stored, hist>>

\* reopen and map the renamed file, update the handle; the deferred Munmap
\* of tmpData and Close of tmpFile run; putWithRetry is entered again
RsReopen(t) ==
    /\ proc = "running"
    /\ pc[t] = "rs_reopen"
    /\ LET i  == fs.dir[filePath]
           w1 == Mmap([fs EXCEPT !.fds[i] = @ + 1], i)
       IN  /\ ph' = [ph EXCEPT !.file = [ino |-> i, open |-> TRUE],
                               !.data = [ino |-> i, len |-> FileSize(fs, i),
                                         live |-> TRUE],
                               !.numSlots = loc[t].newNumSlots,
                               !.usedSlots = Uint32(fs.ino[i], 12)]
           /\ fs' = FileClose(Munmap(w1, loc[t].tmp), loc[t].tmp)
    /\ loc' = [loc EXCEPT ![t].retry = @ + 1, ![t].tmp = NoIno]
    /\ pc' = [pc EXCEPT ![t] = "put_try"]
    /\ UNCHANGED <<life, proc, mu, opened, stored, hist>>

(***************************************************************************)
(* Close (src/phash.go:167-175).                                           *)
(***************************************************************************)
CloseLock(t) ==
    /\ proc = "running"
    /\ life = "open"
    /\ pc[t] = "idle"
    /\ CanLock
    /\ mu' = [mu EXCEPT !.w = t]
    /\ pc' = [pc EXCEPT ![t] = "close_unmap"]
    /\ UNCHANGED <<fs, ph, life, proc, loc, opened, stored, hist>>

\* syscall.Munmap(ph.data); ph.file.Close()
CloseUnmap(t) ==
    /\ proc = "running"
    /\ pc[t] = "close_unmap"
    /\ fs' = FileClose(Munmap(fs, ph.data.ino), ph.file.ino)
    /\ ph' = [ph EXCEPT !.data.live = FALSE, !.file.open = FALSE]
    /\ hist' = [closed |-> TRUE, snap |-> [k \in InputKeys |-> Get(fs, ph, k)]]
    /\ pc' = [pc EXCEPT ![t] = "close_ret"]
    /\ UNCHANGED <<life, proc, mu, loc, opened, stored>>

CloseRet(t) ==
    /\ proc = "running"
    /\ pc[t] = "close_ret"
    /\ mu' = [mu EXCEPT !.w = NoThread]
    /\ life' = "closed"
    /\ pc' = [pc EXCEPT ![t] = "idle"]
    /\ UNCHANGED <<fs, ph, proc, loc, opened, stored, hist>>

Next ==
    \/ \E keySize \in KeySizes, valueSize \in ValueSizes : Open(keySize, valueSize)
    \/ \E t \in Threads, key \in InputKeys : GetRLock(t, key)
    \/ \E t \in Threads : GetRead(t)
    \/ \E t \in Threads : GetRet(t)
    \/ \E t \in Threads, key \in InputKeys, value \in InputValues : PutLock(t, key, value)
    \/ \E t \in Threads : PutValidate(t)
    \/ \E t \in Threads : PutTry(t)
    \/ \E t \in Threads : PutCount(t)
    \/ \E t \in Threads : PutRet(t)
    \/ \E t \in Threads : RsCreate(t)
    \/ \E t \in Threads : RsRehash(t)
    \/ \E t \in Threads : RsUnmap(t)
    \/ \E t \in Threads : RsRename(t)
    \/ \E t \in Threads : RsReopen(t)
    \/ \E t \in Threads : CloseLock(t)
    \/ \E t \in Threads : CloseUnmap(t)
    \/ \E t \in Threads : CloseRet(t)

Spec == Init /\ [][Next]_vars

(***************************************************************************)
(* The claims.                                                             *)
(***************************************************************************)
\* no call is in progress that may write the table
Quiet == proc = "running" /\ life = "open" /\ mu.w = NoThread

\* C1: round trip.  When a Put of a key and a value of the declared lengths
\* returns success, Get of that key returns (value, true), at once and for
\* as long as no later Put of the same key returns; for every declared
\* key/value size, and also when the Put resized the table.
C1_RoundTrip ==
    /\ \A t \in Threads :
         (proc = "running" /\ pc[t] = "put_ret" /\ loc[t].err = "ok")
            => Get(fs, ph, loc[t].key) = Hit(loc[t].value)
    /\ Quiet => \A k \in InputKeys : stored[k].found => Get(fs, ph, k) = stored[k]

\* a Put of a 2-byte key that resized the table has returned success and its
\* value is what Get returns
C1_Witness ==
    \E t \in Threads :
        /\ pc[t] = "put_ret" /\ loc[t].err = "ok" /\ loc[t].retry > 0
        /\ ph.keySize = 2 /\ ph.valueSize = 1
        /\ Get(fs, ph, loc[t].key) = Hit(loc[t].value)

\* C2: resize preserves data.  When resize has returned, the table holds
\* exactly the <<key, value>> entries it held when resize was entered, and
\* Get of every key returns what it returned before: the stored value of a
\* stored key, not-found for the others.
C2_ResizePreserves ==
    \A t \in Threads :
        (proc = "running" /\ pc[t] = "put_try" /\ loc[t].retry > 0) =>
            /\ Entries(Data(fs, ph), ph) = loc[t].before
            /\ \A e \in loc[t].before : Get(fs, ph, e[1]) = Hit(e[2])
            /\ \A k \in InputKeys : Get(fs, ph, k) = stored[k]

\* a second resize (capacity four times the initial one) has carried over
\* two entries
C2_Witness ==
    \E t \in Threads :
        /\ pc[t] = "put_try" /\ loc[t].retry > 0
        /\ ph.numSlots = 4 * initialSlots
        /\ Cardinality(loc[t].before) = 2
        /\ Entries(Data(fs, ph), ph) = loc[t].before

\* C3: persistence.  After Close and an Open of the same path with the key
\* and value sizes of the table, Get returns for every key what it returned
\* at the Close, also when the table had been resized.
C3_Persistence ==
    (Quiet /\ hist.closed
        /\ opened.keySize = ph.keySize /\ opened.valueSize = ph.valueSize)
    => \A k \in InputKeys : Get(fs, ph, k) = hist.snap[k]

\* a resized table holding two keys has been closed and reopened
C3_Witness ==
    /\ Quiet /\ hist.closed
    /\ opened.keySize = ph.keySize /\ opened.valueSize = ph.valueSize
    /\ ph.numSlots > initialSlots
    /\ Cardinality({k \in InputKeys : hist.snap[k].found}) = 2
    /\ \A k \in InputKeys : Get(fs, ph, k) = hist.snap[k]

\* the offsets at which two byte strings of one length differ
DiffOffsets(a, b) == {o \in 0..(Len(a) - 1) : ByteAt(a, o) # ByteAt(b, o)}

\* the value bytes of the slot that holds key in table d
ValueOffsets(d, h, key) ==
    UNION {(SlotStart(h, i) + 1 + h.keySize)..(SlotStart(h, i) + h.slotSize - 1) :
              i \in {j \in 0..(h.numSlots - 1) :
                        /\ ByteAt(d, SlotStart(h, j)) = 1
                        /\ Slice(d, SlotStart(h, j) + 1, SlotStart(h, j) + 1 + h.keySize)
                               = key}}

\* C4: overwrite.  A successful Put of a key the table already holds has
\* triggered no resize, leaves the handle (numSlots, usedSlots and the rest)
\* and the mapping's length as they were, changes no byte of the file but
\* value bytes of that key's slot, leaves Get of every other key as it was,
\* and makes Get of the key return the new value.
C4_Overwrite ==
    \A t \in Threads :
        (/\ proc = "running" /\ pc[t] = "put_ret" /\ loc[t].err = "ok"
         /\ \E e \in Entries(loc[t].d0, loc[t].h0) : e[1] = loc[t].key)
        => /\ loc[t].retry = 0
           /\ ph = loc[t].h0
           /\ Len(Data(fs, ph)) = Len(loc[t].d0)
           /\ DiffOffsets(Data(fs, ph), loc[t].d0)
                 \subseteq ValueOffsets(loc[t].d0, loc[t].h0, loc[t].key)
           /\ \A k \in InputKeys \ {loc[t].key} : Get(fs, ph, k) = stored[k]
           /\ Get(fs, ph, loc[t].key) = Hit(loc[t].value)

\* a key was overwritten with a different value in a table at the
\* load-factor limit (the insert of a new key would resize it)
C4_Witness ==
    \E t \in Threads :
        /\ pc[t] = "put_ret" /\ loc[t].err = "ok"
        /\ \E e \in Entries(loc[t].d0, loc[t].h0) :
              e[1] = loc[t].key /\ e[2] # loc[t].value
        /\ LoadFactorExceeded(ph.usedSlots, ph.numSlots)
        /\ ph.usedSlots = 2
        /\ DiffOffsets(Data(fs, ph), loc[t].d0) # {}

(***************************************************************************)
(* The geometry of a table at its real size.  SpecScale follows numSlots   *)
(* and usedSlots of a table created with the code's 1024 slots through     *)
(* Puts of keys it does not hold yet.  The slots themselves are not        *)
(* represented (fs stays empty): such a Put always reaches an empty slot,  *)
(* since usedSlots < numSlots, and what it then does depends on the two    *)
(* counters alone (src/phash.go:205-224, 273, 409-410).                    *)
(***************************************************************************)
\* initialSlots as the code sets it
freshSlots == 1024

\* SpecScale takes single Puts from this many entries below 0.7 * numSlots
ScaleWindow == 4

\* SpecScale stops doubling at this capacity
ScaleMaxSlots == 134217728

ScaleHandle(numSlots, usedSlots) ==
    [file      |-> [ino |-> 1, open |-> TRUE],
     data      |-> [ino |-> 1, len |-> headerSize + numSlots * 5, live |-> TRUE],
     numSlots  |-> numSlots,
     usedSlots |-> usedSlots,
     slotSize  |-> 5,
     keySize   |-> 4,
     valueSize |-> 0]

RECURSIVE ScaleInsert_GrowByOne(_, _, _)
\* a mutant: resize adds one slot
ScaleInsert_GrowByOne(numSlots, usedSlots, retryCount) ==
    IF retryCount > 3 THEN <<numSlots, usedSlots>>
    ELSE IF LoadFactorExceeded(usedSlots, numSlots)
    THEN ScaleInsert_GrowByOne(numSlots + 1, usedSlots, retryCount + 1)
    ELSE <<numSlots, usedSlots + 1>>

RECURSIVE ScaleInsert(_, _, _)
\* putWithRetry of a new key on the counters: <<numSlots, usedSlots>> when
\* it returns, every resize carrying over all usedSlots entries
ScaleInsert(numSlots, usedSlots, retryCount) ==
    IF retryCount > 3 THEN <<numSlots, usedSlots>>
    ELSE IF LoadFactorExceeded(usedSlots, numSlots)
    THEN ScaleInsert(2 * numSlots, usedSlots, retryCount + 1)
    ELSE <<numSlots, usedSlots + 1>>

ScaleInit ==
    /\ fs = FsEmpty
    /\ ph = ScaleHandle(freshSlots, 0)
    /\ life = "open"
    /\ proc = "running"
    /\ mu = [w |-> NoThread, r |-> {}]
    /\ pc = [t \in Threads |-> "idle"]
    /\ loc = [t \in Threads |-> LocIdle]
    /\ opened = [res |-> "ok", keySize |-> 4, valueSize |-> 0]
    /\ stored = [k \in InputKeys |-> Miss]
    /\ hist = NoSnapshot

\* one Put of a new key, from call to return
ScalePut ==
    /\ LET r == ScaleInsert(ph.numSlots, ph.usedSlots, 0)
       IN  /\ r[1] <= ScaleMaxSlots
           /\ ph.usedSlots >= ((7 * ph.numSlots) \div 10) - ScaleWindow
           /\ ph' = ScaleHandle(r[1], r[2])
    /\ UNCHANGED <<fs, life, proc, mu, pc, loc, opened, stored, hist>>

\* Puts of new keys, one after the other, up to ScaleWindow entries below
\* 0.7 * numSlots.  None of them resizes: the last one does not, and the
\* float32 quotient does not decrease as usedSlots grows.
ScaleFill ==
    /\ LET target == ((7 * ph.numSlots) \div 10) - ScaleWindow
       IN  /\ ph.usedSlots < target
           /\ ~LoadFactorExceeded(target - 1, ph.numSlots)
           /\ ph' = ScaleHandle(ph.numSlots, target)
    /\ UNCHANGED <<fs, life, proc, mu, pc, loc, opened, stored, hist>>

ScaleNext == ScalePut \/ ScaleFill

SpecScale == ScaleInit /\ [][ScaleNext]_vars

\* C5: load-factor invariant.  In every state between calls of a table that
\* started as a fresh file, hence immediately after every successful Put,
\* 10 * usedSlots <= 7 * numSlots.
C5_LoadFactor == Quiet => 10 * ph.usedSlots <= 7 * ph.numSlots

\* thread t takes the step
Moves(t) == pc'[t] # pc[t]

\* the key or the value does not have the length the table declares
WrongLength(h, key, value) == Len(key) # h.keySize \/ Len(value) # h.valueSize

\* thread t is in, or enters, a Put whose key or value has a wrong length
InvalidPut(t) ==
    \/ pc[t] \in PutPcs /\ WrongLength(loc[t].h0, loc[t].key, loc[t].value)
    \/ pc[t] = "idle" /\ pc'[t] \in PutPcs
          /\ WrongLength(ph, loc'[t].key, loc'[t].value)

\* thread t is in, or enters, a Get whose key has a wrong length
InvalidGet(t) ==
    \/ pc[t] \in GetPcs /\ Len(loc[t].key) # ph.keySize
    \/ pc[t] = "idle" /\ pc'[t] \in GetPcs /\ Len(loc'[t].key) # ph.keySize

\* C6: validation.  A Put whose key or value has a wrong length returns an
\* error and a Get whose key has a wrong length returns not-found; no step
\* of such a call changes the file system (slots and header), the handle's
\* fields or what later Gets return.
C6_Validation ==
    /\ [](\A t \in Threads :
            /\ (pc[t] \in PutPcs
                  /\ WrongLength(loc[t].h0, loc[t].key, loc[t].value))
               => /\ pc[t] \in {"put_validate", "put_ret"}
                  /\ pc[t] = "put_ret" => loc[t].err = "invalid key/value size"
            /\ (pc[t] = "get_ret" /\ Len(loc[t].key) # ph.keySize)
               => loc[t].got = Miss)
    /\ [][\A t \in Threads :
            (Moves(t) /\ (InvalidPut(t) \/ InvalidGet(t)))
               => UNCHANGED <<fs, ph, stored, proc>>]_vars

\* a Put with a key of the right and a value of a wrong length has returned
\* its error on a table that holds an entry, which it left as it was
C6_Witness ==
    \E t \in Threads :
        /\ pc[t] = "put_ret" /\ loc[t].err = "invalid key/value size"
        /\ Len(loc[t].key) = ph.keySize /\ Len(loc[t].value) # ph.valueSize
        /\ ph.usedSlots > 0 /\ ph = loc[t].h0 /\ Data(fs, ph) = loc[t].d0

\* the table is whole: mapped, its descriptor open, and the header's
\* usedSlots, the cached usedSlots and the number of occupied slots agree
TableWhole ==
    /\ ph.data.live /\ ph.file.open
    /\ fs.dir[filePath] = ph.data.ino
    /\ Uint32(Data(fs, ph), 8) = ph.numSlots
    /\ Uint32(Data(fs, ph), 12) = ph.usedSlots
    /\ Cardinality({i \in 0..(ph.numSlots - 1) :
                       ByteAt(Data(fs, ph), SlotStart(ph, i)) = 1}) = ph.usedSlots

\* C7: mutual exclusion.  While a thread is inside Put (resize included) or
\* Close it holds the mutex as the writer and no other thread is inside a
\* Get, a Put or a Close; a thread inside Get always finds the table whole,
\* never between the steps of a resize or of an insert.
C7_MutualExclusion ==
    /\ \A t \in Threads :
          pc[t] \in (PutPcs \cup ClosePcs)
             => mu.w = t /\ \A u \in Threads \ {t} : pc[u] = "idle"
    /\ \A t \in Threads :
          (proc = "running" /\ pc[t] \in GetPcs)
             => t \in mu.r /\ mu.w = NoThread /\ TableWhole

\* a Put is between the unmap of the old file and the rename of the new one,
\* the table is not whole, and the other threads are kept out
C7_Witness ==
    \E t \in Threads :
        /\ pc[t] = "rs_rename" /\ ~ph.data.live
        /\ \A u \in Threads \ {t} : pc[u] = "idle"
        /\ ~CanRLock

\* C8: visibility.  A Get that took the lock after a Put of its key had
\* returned success returns that Put's value, whichever threads called the
\* two, unless a later Put of the key took the lock in between.
C8_Visibility ==
    \A t \in Threads :
        (pc[t] = "get_ret" /\ loc[t].expOk /\ loc[t].exp.found)
            => loc[t].got = loc[t].exp

\* two threads have read the same stored key at the same time, so at least
\* one of them read what another thread wrote
C8_Witness ==
    \E t, u \in Threads :
        /\ t # u
        /\ pc[t] = "get_ret" /\ pc[u] = "get_ret"
        /\ loc[t].key = loc[u].key
        /\ loc[t].expOk /\ loc[t].exp.found /\ loc[t].got = loc[t].exp
        /\ loc[u].expOk /\ loc[u].exp.found /\ loc[u].got = loc[u].exp

\* C9: concurrent readers.  While threads are inside Get and no writer holds
\* the mutex, a Get called by another thread is admitted at once; and no
\* step of a Get changes the file system, the handle or what is stored.
C9_ConcurrentReaders ==
    /\ [](\A t, u \in Threads :
            (t # u /\ Quiet /\ pc[t] \in GetPcs /\ pc[u] = "idle")
               => \A k \in InputKeys : ENABLED GetRLock(u, k))
    /\ [][\A t \in Threads :
            (Moves(t) /\ (pc[t] \in GetPcs \/ pc'[t] \in GetPcs))
               => UNCHANGED <<fs, ph, stored, life, hist>>]_vars

\* two threads are inside Get at once, reading a table that holds an entry
C9_Witness ==
    \E t, u \in Threads :
        /\ t # u /\ pc[t] = "get_read" /\ pc[u] = "get_read"
        /\ {t, u} \subseteq mu.r
        /\ ph.usedSlots > 0

\* the file at the path exists, has 4 bytes or more, and they are not the
\* magic number 0x70687368
BadMagicFile ==
    /\ fs.dir[filePath] # NoIno
    /\ Len(fs.ino[fs.dir[filePath]]) >= 4
    /\ SubSeq(fs.ino[fs.dir[filePath]], 1, 4) # <<112, 104, 115, 104>>

\* C10: bad magic.  Open of an existing file of 4 bytes or more whose first
\* 4 bytes are not the magic number returns an error and no handle, and
\* leaves the file system as it was: the file's bytes unchanged, no
\* descriptor open, no mapping.
C10_BadMagic ==
    [][((\E keySize \in KeySizes, valueSize \in ValueSizes : Open(keySize, valueSize))
          /\ BadMagicFile)
        => /\ opened'.res = "error"
           /\ ph' = NoHandle /\ life' = "none" /\ proc' = "running"
           /\ fs' = fs
           /\ \A i \in InoIds : fs'.fds[i] = 0 /\ fs'.maps[i] = 0]_vars

\* Open has returned its error on a file that is a whole table but for its
\* magic number
C10_Witness ==
    /\ opened.res = "error" /\ ph = NoHandle
    /\ BadMagicFile
    /\ Len(fs.ino[fs.dir[filePath]]) > headerSize
    /\ \A i \in InoIds : fs.fds[i] = 0 /\ fs.maps[i] = 0

\* the file at the path exists and is shorter than the header
ShortFile ==
    /\ fs.dir[filePath] # NoIno
    /\ Len(fs.ino[fs.dir[filePath]]) \in 1..(headerSize - 1)

\* C11: unreadable header.  An Open of a file of 1 to 27 bytes has returned
\* an error and no handle, and the process goes on running.
C11_ShortHeader ==
    (ShortFile /\ opened.res # "none")
        => opened.res = "error" /\ ph = NoHandle /\ proc = "running"

\* C12: reopen geometry.  Every handle Open has returned has the keySize and
\* valueSize of the call and slotSize = 1 + keySize + valueSize.
C12_ReopenGeometry ==
    (opened.res = "ok" /\ life = "open")
        => /\ ph.keySize = opened.keySize
           /\ ph.valueSize = opened.valueSize
           /\ ph.slotSize = 1 + opened.keySize + opened.valueSize

\* the geometry a file's header declares
HeaderOf(d) ==
    [numSlots  |-> Uint32(d, 8),
     usedSlots |-> Uint32(d, 12),
     slotSize  |-> Uint32(d, 16),
     keySize   |-> Uint32(d, 20),
     valueSize |-> Uint32(d, 24)]

\* the bytes are a table file: a header with the magic number, and slots
IsTable(d) ==
    /\ Len(d) >= headerSize
    /\ MagicOk(d)
    /\ Len(d) = headerSize + Uint32(d, 8) * Uint32(d, 16)

\* the table files that exist: the file at the path, the temporary file of a
\* resize, and a replaced file that is still mapped
Tables == {i \in fs.alloc : IsTable(fs.ino[i])}

\* the indexes of the slots of table d with status s
SlotsWith(d, s) ==
    LET h == HeaderOf(d)
    IN  {j \in 0..(h.numSlots - 1) : ByteAt(d, SlotStart(h, j)) = s}

\* the key bytes of slot j of table d
SlotKey(d, j) ==
    LET h == HeaderOf(d)
    IN  Slice(d, SlotStart(h, j) + 1, SlotStart(h, j) + 1 + h.keySize)

\* C13: key uniqueness.  In every state, also in the middle of a Put and of
\* a resize, no table file has two occupied slots with equal key bytes.
C13_KeyUniqueness ==
    \A f \in Tables :
        \A i, j \in SlotsWith(fs.ino[f], 1) :
            i # j => SlotKey(fs.ino[f], i) # SlotKey(fs.ino[f], j)

\* a Put has overwritten a key of a resized table that holds three keys, and
\* the table still holds three
C13_Witness ==
    \E t \in Threads :
        /\ pc[t] = "put_ret" /\ loc[t].err = "ok"
        /\ \E e \in Entries(loc[t].d0, loc[t].h0) : e[1] = loc[t].key
        /\ ph.numSlots > initialSlots
        /\ Cardinality(SlotsWith(Data(fs, ph), 1)) = 3
        /\ Cardinality({SlotKey(Data(fs, ph), i) : i \in SlotsWith(Data(fs, ph), 1)}) = 3

\* the status byte of slot j of table d
SlotStatus(d, j) == ByteAt(d, SlotStart(HeaderOf(d), j))

\* inode f holds a table before and after the step, of the same geometry
SameTable(f) ==
    /\ f \in fs.alloc /\ f \in fs'.alloc
    /\ IsTable(fs.ino[f]) /\ IsTable(fs'.ino[f])
    /\ HeaderOf(fs.ino[f]).numSlots = HeaderOf(fs'.ino[f]).numSlots
    /\ HeaderOf(fs.ino[f]).slotSize = HeaderOf(fs'.ino[f]).slotSize

\* Get of key on the table the handle h had with the bytes d
GetIn(d, h, key) == Get(SetData(fs, h, d), h, key)

\* C14: slot state machine.  Every slot of every table file has status 0 or
\* 1; a step changes the status of a slot of a file only from 0 to 1; and
\* every key Get found when a Put or a resize began is found when the Put
\* returns.
C14_SlotStates ==
    /\ [](/\ \A f \in Tables :
               \A j \in 0..(HeaderOf(fs.ino[f]).numSlots - 1) :
                   SlotStatus(fs.ino[f], j) \in {0, 1}
          /\ \A t \in Threads :
               (proc = "running" /\ pc[t] = "put_ret")
                  => \A k \in InputKeys :
                        GetIn(loc[t].d0, loc[t].h0, k).found => Get(fs, ph, k).found)
    /\ [][\A f \in InoIds :
            (fs'.ino[f] # fs.ino[f] /\ SameTable(f))
               => \A j \in 0..(HeaderOf(fs.ino[f]).numSlots - 1) :
                     \/ SlotStatus(fs'.ino[f], j) = SlotStatus(fs.ino[f], j)
                     \/ SlotStatus(fs.ino[f], j) = 0 /\ SlotStatus(fs'.ino[f], j) = 1]_vars

\* a Put that resized a table holding two keys has returned: the two keys
\* and the new one are found
C14_Witness ==
    \E t \in Threads :
        /\ pc[t] = "put_ret" /\ loc[t].err = "ok" /\ loc[t].retry > 0
        /\ Cardinality({k \in InputKeys : GetIn(loc[t].d0, loc[t].h0, k).found}) = 2
        /\ Cardinality({k \in InputKeys : Get(fs, ph, k).found}) = 3

\* the bytes of the file at the path
PathFile == fs.ino[fs.dir[filePath]]

\* thread t is about to return from a successful Put of a key that the table
\* did not hold when the Put began
NewKeyStored(t) ==
    /\ proc = "running" /\ pc[t] = "put_ret" /\ loc[t].err = "ok"
    /\ \A e \in Entries(loc[t].d0, loc[t].h0) : e[1] # loc[t].key

\* C15: usedSlots accounting.  Between operations the header's usedSlots is
\* the number of occupied slots, is at most numSlots, and is the handle's
\* usedSlots while the handle is open.  When a successful Put of a new key
\* returns, the handle's and the header's usedSlots are one more than when
\* it began and the table holds the entries it held plus the new one; when
\* the Put did not resize, exactly one slot of the file changed its status.
C15_UsedSlots ==
    /\ (proc = "running" /\ mu.w = NoThread /\ life \in {"open", "closed"})
          => /\ IsTable(PathFile)
             /\ HeaderOf(PathFile).usedSlots = Cardinality(SlotsWith(PathFile, 1))
             /\ HeaderOf(PathFile).usedSlots <= HeaderOf(PathFile).numSlots
    /\ Quiet => /\ ph.usedSlots = HeaderOf(Data(fs, ph)).usedSlots
                /\ ph.numSlots = HeaderOf(Data(fs, ph)).numSlots
                /\ Data(fs, ph) = PathFile
    /\ \A t \in Threads :
          NewKeyStored(t)
             => /\ ph.usedSlots = loc[t].h0.usedSlots + 1
                /\ HeaderOf(Data(fs, ph)).usedSlots = loc[t].h0.usedSlots + 1
                /\ Cardinality(SlotsWith(Data(fs, ph), 1))
                      = Cardinality(SlotsWith(loc[t].d0, 1)) + 1
                /\ Entries(Data(fs, ph), ph)
                      = Entries(loc[t].d0, loc[t].h0)
                           \cup {<<loc[t].key, loc[t].value>>}
                /\ loc[t].retry = 0
                      => Cardinality({j \in 0..(ph.numSlots - 1) :
                                         SlotStatus(Data(fs, ph), j)
                                            # SlotStatus(loc[t].d0, j)}) = 1

\* a Put of a third key has resized the table and returned with usedSlots 3
C15_Witness ==
    \E t \in Threads :
        /\ NewKeyStored(t) /\ loc[t].retry > 0
        /\ loc[t].h0.usedSlots = 2 /\ ph.usedSlots = 3
        /\ HeaderOf(Data(fs, ph)).usedSlots = 3

(***************************************************************************)
(* A table of the size the code creates.  SpecFresh is Open on a missing   *)
(* or empty file with the code's 1024 slots, followed by the Puts and Gets *)
(* of one thread.                                                          *)
(***************************************************************************)
FreshInit ==
    /\ fs \in {FsEmpty, FsWith(<< >>)}
    /\ ph = NoHandle
    /\ life = "none"
    /\ proc = "running"
    /\ mu = [w |-> NoThread, r |-> {}]
    /\ pc = [t \in Threads |-> "idle"]
    /\ loc = [t \in Threads |-> LocIdle]
    /\ opened = [res |-> "none", keySize |-> 0, valueSize |-> 0]
    /\ stored = [k \in InputKeys |-> Miss]
    /\ hist = NoSnapshot

\* Open as the code creates a table: initialSlots := uint32(1024)
FreshOpen(keySize, valueSize) ==
    /\ proc = "running"
    /\ life = "none"
    /\ LET r == OpenCallSlots(fs, keySize, valueSize, freshSlots)
       IN  /\ fs' = r.w
           /\ ph' = r.h
           /\ life' = IF r.res = "ok" THEN "open" ELSE "none"
           /\ proc' = IF r.res = "panic" THEN "panicked" ELSE proc
           /\ opened' = [res |-> r.res, keySize |-> keySize, valueSize |-> valueSize]
    /\ UNCHANGED <<mu, pc, loc, stored, hist>>

FreshNext ==
    \/ \E keySize \in KeySizes, valueSize \in ValueSizes : FreshOpen(keySize, valueSize)
    \/ \E key \in InputKeys : GetRLock(1, key)
    \/ GetRead(1)
    \/ GetRet(1)
    \/ \E key \in InputKeys, value \in InputValues : PutLock(1, key, value)
    \/ PutValidate(1)
    \/ PutTry(1)
    \/ PutCount(1)
    \/ PutRet(1)

SpecFresh == FreshInit /\ [][FreshNext]_vars

\* C16: fresh table.  Open on a missing or empty file succeeds with a
\* handle and a header of numSlots = 1024, keySize and valueSize as declared
\* and slotSize = 1 + keySize + valueSize, in a file of 28 + 1024 * slotSize
\* bytes; until the first Put has stored a key usedSlots is 0 and every slot
\* is empty; and Get returns not-found for every key no Put has stored.
C16_FreshTable ==
    /\ opened.res \in {"none", "ok"}
    /\ opened.res = "ok"
          => /\ life = "open"
             /\ ph.numSlots = freshSlots
             /\ ph.keySize = opened.keySize
             /\ ph.valueSize = opened.valueSize
             /\ ph.slotSize = 1 + opened.keySize + opened.valueSize
             /\ Len(Data(fs, ph)) = headerSize + freshSlots * ph.slotSize
             /\ SubSeq(Data(fs, ph), 1, 12) \o SubSeq(Data(fs, ph), 17, headerSize)
                   = PutUint32(magicNumber) \o PutUint32(version)
                        \o PutUint32(freshSlots) \o PutUint32(ph.slotSize)
                        \o PutUint32(opened.keySize) \o PutUint32(opened.valueSize)
    /\ (Quiet /\ \A k \in InputKeys : ~stored[k].found)
          => /\ ph.usedSlots = 0
             /\ Uint32(Data(fs, ph), 12) = 0
             /\ \A j \in 0..(freshSlots - 1) : ByteAt(Data(fs, ph), SlotStart(ph, j)) = 0
    /\ Quiet => \A k \in InputKeys : ~stored[k].found => Get(fs, ph, k) = Miss

\* Get of a 2-byte key has returned not-found on a new table of 1024 slots
\* with 1-byte values, before any Put
C16_Witness ==
    /\ pc[1] = "get_ret" /\ loc[1].got = Miss /\ Len(loc[1].key) = 2
    /\ opened.res = "ok" /\ opened.keySize = 2 /\ opened.valueSize = 1
    /\ ph.numSlots = freshSlots /\ ph.usedSlots = 0
    /\ \A k \in InputKeys : ~stored[k].found
    /\ Len(Data(fs, ph)) = headerSize + freshSlots * 4

\* the step is the return of resize in thread t: the handle takes the new
\* file, mapping, numSlots and usedSlots (src/phash.go:407-410)
ResizeReturns(t) == pc[t] = "rs_reopen" /\ pc'[t] = "put_try"

\* C17: resize doubles the capacity.  When resize returns, numSlots is twice
\* what it was, keySize, valueSize and slotSize are what they were, usedSlots
\* is what it was, and the new file's header says the same; and no step,
\* Close and Open included, makes a handle's numSlots smaller.
C17_ResizeDoubles ==
    [][/\ \A t \in Threads :
            ResizeReturns(t)
               => /\ ph'.numSlots = 2 * ph.numSlots
                  /\ ph'.keySize = ph.keySize
                  /\ ph'.valueSize = ph.valueSize
                  /\ ph'.slotSize = ph.slotSize
                  /\ ph'.usedSlots = ph.usedSlots
                  /\ ph'.usedSlots = Cardinality(loc[t].before)
                  /\ HeaderOf(Data(fs', ph'))
                        = [numSlots  |-> 2 * ph.numSlots,
                           usedSlots |-> ph.usedSlots,
                           slotSize  |-> ph.slotSize,
                           keySize   |-> ph.keySize,
                           valueSize |-> ph.valueSize]
                  /\ Len(Data(fs', ph')) = headerSize + 2 * ph.numSlots * ph.slotSize
       /\ (ph # NoHandle /\ ph' # NoHandle) => ph'.numSlots >= ph.numSlots]_vars

\* a second resize has returned: four times the initial capacity, two
\* entries, a header that agrees
C17_Witness ==
    \E t \in Threads :
        /\ pc[t] = "put_try" /\ loc[t].retry = 1
        /\ loc[t].newNumSlots = ph.numSlots
        /\ ph.numSlots = 4 * initialSlots /\ ph.usedSlots = 2
        /\ HeaderOf(Data(fs, ph)).numSlots = 4 * initialSlots
        /\ HeaderOf(Data(fs, ph)).usedSlots = 2

RECURSIVE MinCapacity(_, _)
\* the smallest of slots, 2 * slots, 4 * slots, ... that holds n entries at a
\* load factor of at most 0.7
MinCapacity(n, slots) ==
    IF 10 * n <= 7 * slots THEN slots ELSE MinCapacity(n, 2 * slots)

\* C18: capacity growth.  After the Puts of n distinct keys into a fresh
\* table, numSlots is the smallest of 1024, 2048, 4096, ... with
\* 10 * n <= 7 * numSlots.
C18_CapacityGrowth == Quiet => ph.numSlots = MinCapacity(ph.usedSlots, freshSlots)

(***************************************************************************)
(* Tables this program did not write.  Open accepts every file that starts *)
(* with the magic number and has 28 bytes or more; SpecForeign starts from *)
(* files whose header counts and slots do not agree, and follows Open and  *)
(* the Puts of one thread.  The files have the geometry their header       *)
(* declares (2 slots of 3 bytes: 1-byte keys, 1-byte values), which is     *)
(* what the slicing of Put and resize relies on.                           *)
(***************************************************************************)
\* the header's usedSlots of the foreign tables whose header declares more entries than slots
ForeignUsedSlots == 200

\* a table file of 2 slots with the given usedSlots and slot bytes
ForeignTable(usedSlots, slots) == EncodeHeader(2, usedSlots, 3, 1, 1) \o slots

ForeignTables ==
    { ForeignTable(ForeignUsedSlots, <<0, 0, 0, 0, 0, 0>>),
      ForeignTable(ForeignUsedSlots, <<1, 0, 5, 0, 0, 0>>),
      ForeignTable(ForeignUsedSlots, <<0, 0, 0, 1, 1, 6>>),
      ForeignTable(0, <<1, 4, 5, 0, 0, 0>>),
      ForeignTable(1, <<1, 0, 5, 1, 1, 6>>),
      ForeignTable(2, <<1, 0, 5, 1, 0, 6>>),
      ForeignTable(1, <<2, 0, 5, 0, 0, 0>>),
      ForeignTable(ForeignUsedSlots, <<2, 0, 5, 2, 1, 6>>) }

ForeignInit ==
    /\ fs \in {FsWith(b) : b \in ForeignTables}
    /\ ph = NoHandle
    /\ life = "none"
    /\ proc = "running"
    /\ mu = [w |-> NoThread, r |-> {}]
    /\ pc = [t \in Threads |-> "idle"]
    /\ loc = [t \in Threads |-> LocIdle]
    /\ opened = [res |-> "none", keySize |-> 0, valueSize |-> 0]
    /\ stored = [k \in InputKeys |-> Miss]
    /\ hist = NoSnapshot

ForeignNext ==
    \/ \E keySize \in KeySizes, valueSize \in ValueSizes : Open(keySize, valueSize)
    \/ \E key \in InputKeys, value \in InputValues : PutLock(1, key, value)
    \/ PutValidate(1)
    \/ PutTry(1)
    \/ PutCount(1)
    \/ PutRet(1)
    \/ RsCreate(1)
    \/ RsRehash(1)
    \/ RsUnmap(1)
    \/ RsRename(1)
    \/ RsReopen(1)

SpecForeign == ForeignInit /\ [][ForeignNext]_vars

\* C19: retry bound.  On every table Open accepts, a Put call has resized
\* and retried at most 3 times, whatever the header's counts and the slots'
\* contents.
C19_RetryBound == \A t \in Threads : loc[t].retry <= 3

\* a Put on a table whose header declared 200 used slots of 2 has resized,
\* retried and stored its key
C19_Witness ==
    \E t \in Threads :
        /\ pc[t] = "put_ret" /\ loc[t].err = "ok" /\ loc[t].retry = 1
        /\ loc[t].h0.usedSlots = ForeignUsedSlots /\ loc[t].h0.numSlots = 2
        /\ Get(fs, ph, loc[t].key) = Hit(loc[t].value)

\* C20: CapacityError is unreachable.  Every table file the program has
\* written, the temporary file of a resize included, has an empty slot in
\* every state; no Put ends with "hash table full" and no rehash fails to
\* find a slot.
C20_NoCapacityError ==
    /\ \A f \in Tables : SlotsWith(fs.ino[f], 0) # {}
    /\ \A t \in Threads : loc[t].err \notin {"hash table full", "resize failed"}

\* the rehash of a table with a single empty slot left has placed every
\* entry in the new table
C20_Witness ==
    \E t \in Threads :
        /\ pc[t] = "rs_unmap"
        /\ Cardinality(SlotsWith(Data(fs, ph), 0)) = 1
        /\ loc[t].usedCount = ph.usedSlots /\ ph.usedSlots > 0
        /\ Cardinality(SlotsWith(fs.ino[loc[t].tmp], 1)) = ph.usedSlots
        /\ SlotsWith(fs.ino[loc[t].tmp], 0) # {}

(***************************************************************************)
(* System calls that fail.  SpecFault is Open, Put, Get and resize of one  *)
(* thread on a table that started as a new file, where every system call   *)
(* of resize may return an error (src/phash.go:280-404).  A failed call    *)
(* changes nothing itself; what changes is what resize does on its way     *)
(* out: its os.Remove of the temporary file, where the code has one, and   *)
(* its deferred tmpFile.Close and Munmap(tmpData).                         *)
(***************************************************************************)
\* the calls of resize before the rehash, in their order (src/phash.go:280-332)
CreateStages == <<"create", "truncate", "write", "sync", "stat", "mmap">>

\* the calls of resize after the rename, in their order (src/phash.go:385-404)
ReopenStages == <<"open", "stat", "mmap">>

\* the error resize returns when the call of that stage fails
CreateError(stage) ==
    CASE stage = "create"   -> "failed to create temp file for resize"
      [] stage = "truncate" -> "failed to truncate temp file"
      [] stage = "write"    -> "failed to write header to temp file"
      [] stage = "sync"     -> "failed to sync temp file"
      [] stage = "stat"     -> "failed to stat temp file"
      [] stage = "mmap"     -> "failed to mmap temp file"

ReopenError(stage) ==
    CASE stage = "open" -> "failed to reopen file after resize"
      [] stage = "stat" -> "failed to stat file after resize"
      [] stage = "mmap" -> "failed to mmap file after resize"

\* a mutant: the error paths remove the table's file, not the temporary one
ResizeCreateFail_WrongPath(w0, h, stage) ==
    LET w1 == OsRemove(w0, tmpPath)
        w2 == OsOpenCreate(w1, tmpPath)
        i  == w2.dir[tmpPath]
    IN  IF stage = "create" THEN w1 ELSE FileClose(OsRemove(w2, filePath), i)

\* the file system when resize returns because the call of stage failed:
\* os.Remove(tmpPath) at the start; after a successful os.Create the error
\* path's os.Remove(tmpPath) and the deferred tmpFile.Close()
ResizeCreateFail(w0, h, stage) ==
    LET w1 == OsRemove(w0, tmpPath)
        w2 == OsOpenCreate(w1, tmpPath)
        i  == w2.dir[tmpPath]
        w3 == FileTruncate(w2, i, TableSize(NewNumSlots(h), h.slotSize))
        w4 == FileWriteAt(w3, i,
                  EncodeHeader(NewNumSlots(h), 0, h.slotSize, h.keySize, h.valueSize), 0)
    IN  CASE stage = "create"   -> w1
          [] stage = "truncate" -> FileClose(OsRemove(w2, tmpPath), i)
          [] stage = "write"    -> FileClose(OsRemove(w3, tmpPath), i)
          [] OTHER              -> FileClose(OsRemove(w4, tmpPath), i)

\* resize fails before the rehash; putWithRetry returns the error
RsCreateFail(t, stage) ==
    /\ proc = "running"
    /\ pc[t] = "rs_create"
    /\ fs' = ResizeCreateFail(fs, ph, stage)
    /\ loc' = [loc EXCEPT ![t].err = CreateError(stage),
                          ![t].before = Entries(Data(fs, ph), ph)]
    /\ pc' = [pc EXCEPT ![t] = "put_ret"]
    /\ UNCHANGED <<ph, life, proc, mu, opened, stored, hist>>

\* os.Rename fails: resize returns, the deferred Munmap(tmpData) and
\* tmpFile.Close() run (src/phash.go:379-381)
RsRenameFail(t) ==
    /\ proc = "running"
    /\ pc[t] = "rs_rename"
    /\ fs' = FileClose(Munmap(fs, loc[t].tmp), loc[t].tmp)
    /\ loc' = [loc EXCEPT ![t].err = "failed to rename temp file"]
    /\ pc' = [pc EXCEPT ![t] = "put_ret"]
    /\ UNCHANGED <<ph, life, proc, mu, opened, stored, hist>>

\* the reopen, stat or mmap of the renamed file fails: a descriptor that was
\* opened is closed again, the deferred calls run (src/phash.go:385-404)
RsReopenFail(t, stage) ==
    /\ proc = "running"
    /\ pc[t] = "rs_reopen"
    /\ fs' = FileClose(Munmap(fs, loc[t].tmp), loc[t].tmp)
    /\ loc' = [loc EXCEPT ![t].err = ReopenError(stage)]
    /\ pc' = [pc EXCEPT ![t] = "put_ret"]
    /\ UNCHANGED <<ph, life, proc, mu, opened, stored, hist>>

FaultNext ==
    \/ \E keySize \in KeySizes, valueSize \in ValueSizes : Open(keySize, valueSize)
    \/ \E key \in InputKeys : GetRLock(1, key)
    \/ GetRead(1)
    \/ GetRet(1)
    \/ \E key \in InputKeys, value \in InputValues : PutLock(1, key, value)
    \/ PutValidate(1)
    \/ PutTry(1)
    \/ PutCount(1)
    \/ PutRet(1)
    \/ RsCreate(1)
    \/ \E s \in 1..Len(CreateStages) : RsCreateFail(1, CreateStages[s])
    \/ RsRehash(1)
    \/ RsUnmap(1)
    \/ RsRename(1)
    \/ RsRenameFail(1)
    \/ RsReopen(1)
    \/ \E s \in 1..Len(ReopenStages) : RsReopenFail(1, ReopenStages[s])

SpecFault == FreshInit /\ [][FaultNext]_vars

\* the errors of the stages at which the temporary file must be gone
CleanupErrors ==
    {CreateError(CreateStages[s]) : s \in {1, 2, 3, 4, 6}}
        \cup {"failed to rename temp file"}

\* C21: temp-file cleanup.  When Put returns the error of a resize that
\* failed at file creation, truncation, header write, fsync, mapping or
\* rename, no file is left at the temporary path.
C21_TempRemoved ==
    \A t \in Threads :
        (pc[t] = "put_ret" /\ loc[t].err \in CleanupErrors)
            => fs.dir[tmpPath] = NoIno

\* the errors of a resize that failed before its rehash
CreateErrors == {CreateError(CreateStages[s]) : s \in 1..Len(CreateStages)}

\* C22: state unchanged on I/O error.  When Put returns the error of a
\* resize that failed at the creation, truncation, header write, fsync, stat
\* or mapping of the temporary file, the handle (mapping, numSlots,
\* usedSlots and the rest) and the bytes of the table's file are those of
\* the moment the Put began, a key that was not stored is not stored, and
\* Get of every key returns what it returned before.
C22_StateUnchanged ==
    \A t \in Threads :
        (pc[t] = "put_ret" /\ loc[t].err \in CreateErrors)
            => /\ ph = loc[t].h0
               /\ ph.data.live /\ ph.file.open
               /\ fs.dir[filePath] = ph.file.ino
               /\ ph.data.ino = ph.file.ino
               /\ Data(fs, ph) = loc[t].d0
               /\ HeaderOf(Data(fs, ph)).numSlots = ph.numSlots
               /\ HeaderOf(Data(fs, ph)).usedSlots = ph.usedSlots
               /\ ((\A e \in Entries(loc[t].d0, loc[t].h0) : e[1] # loc[t].key)
                      => ~Get(fs, ph, loc[t].key).found)
               /\ \A k \in InputKeys :
                     /\ Get(fs, ph, k) = GetIn(loc[t].d0, loc[t].h0, k)
                     /\ Get(fs, ph, k) = stored[k]

\* a Put of a new key into a table of two entries returns after the mapping
\* of the temporary file failed
C22_Witness ==
    \E t \in Threads :
        /\ pc[t] = "put_ret" /\ loc[t].err = CreateError("mmap")
        /\ loc[t].h0.usedSlots = 2
        /\ \A e \in Entries(loc[t].d0, loc[t].h0) : e[1] # loc[t].key

(***************************************************************************)
(* The table as a finite map.  LinearScan says what a lookup by linear     *)
(* probing returns without stepping through the slots: the result is       *)
(* decided by the first slot, counted cyclically from the key's home slot, *)
(* that is Empty or is Occupied with the key.                              *)
(***************************************************************************)
\* the slot at distance i from the key's home slot
ProbeSlot(h, key, i) == (HashMod(hashKey(key), h.numSlots) + i) % h.numSlots

\* the distances at which a scan for the key stops
StopsAt(d, h, key) ==
    {i \in 0..(h.numSlots - 1) :
        \/ SlotStatus(d, ProbeSlot(h, key, i)) = 0
        \/ /\ SlotStatus(d, ProbeSlot(h, key, i)) = 1
           /\ SlotKey(d, ProbeSlot(h, key, i)) = key}

LinearScan(d, h, key) ==
    IF StopsAt(d, h, key) = {} THEN Miss
    ELSE LET i == CHOOSE a \in StopsAt(d, h, key) : \A b \in StopsAt(d, h, key) : a <= b
             s == SlotStart(h, ProbeSlot(h, key, i))
         IN  IF ByteAt(d, s) = 0 THEN Miss
             ELSE Hit(Slice(d, s + 1 + h.keySize, s + h.slotSize))

\* C23: finite-map refinement.  Between calls, on a handle whose mapping is
\* in place, Get of every key returns (v, true) exactly when the last
\* successful Put of the key stored v and not-found when no Put of it has
\* succeeded; a found value is the value of an entry with that very key, a
\* miss means no entry has the key, and the result is the one decided by
\* the first Empty slot or the first slot with the key on the cyclic scan
\* from the home slot, a miss when a full cycle has neither.
C23_FiniteMap ==
    (Quiet /\ ph.data.live) =>
        \A k \in InputKeys :
            LET got == Get(fs, ph, k)
            IN  /\ got = stored[k]
                /\ got.found => <<k, got.val>> \in Entries(Data(fs, ph), ph)
                /\ ~got.found => \A e \in Entries(Data(fs, ph), ph) : e[1] # k
                /\ Len(k) = ph.keySize => got = LinearScan(Data(fs, ph), ph, k)

\* two keys are stored, one of them away from its home slot behind the
\* other, and a third key of valid length whose home slot is occupied is
\* not found
C23_Witness ==
    /\ Quiet /\ ph.data.live
    /\ \E k1, k2, k3 \in InputKeys :
          /\ Len(k3) = ph.keySize /\ k1 # k2
          /\ stored[k1].found /\ stored[k2].found /\ ~stored[k3].found
          /\ SlotKey(Data(fs, ph), ProbeSlot(ph, k2, 0)) = k1
          /\ SlotStatus(Data(fs, ph), ProbeSlot(ph, k3, 0)) = 1
          /\ Get(fs, ph, k2) = stored[k2]
          /\ Get(fs, ph, k3) = Miss

\* the errors of a resize that failed at or after the rename
SwapErrors ==
    {"failed to rename temp file"}
        \cup {ReopenError(ReopenStages[s]) : s \in 1..Len(ReopenStages)}

\* C24: zero-length values.  In a table with valueSize = 0 no operation on
\* a mapped table panics; a Put of a key of the declared length and the
\* empty value, when no system call of a resize failed, returns success, and
\* then Get of the key returns ([], true) while Get of every other key that
\* no Put has stored returns not-found.
C24_EmptyValues ==
    /\ (life = "open" /\ ph.valueSize = 0 /\ ph.data.live) => proc = "running"
    /\ \A t \in Threads :
          (/\ pc[t] = "put_ret" /\ loc[t].h0.valueSize = 0
           /\ Len(loc[t].key) = loc[t].h0.keySize /\ loc[t].value = << >>
           /\ loc[t].err \notin CreateErrors \cup SwapErrors)
              => /\ loc[t].err = "ok"
                 /\ ph.slotSize = 1 + ph.keySize
                 /\ Get(fs, ph, loc[t].key) = Hit(<< >>)
                 /\ \A k \in InputKeys \ {loc[t].key} :
                       ~stored[k].found => Get(fs, ph, k) = Miss

\* a Put of a new key with the empty value has returned success and the key
\* sits in the last slot, which ends where the mapping ends
C24_Witness ==
    \E t \in Threads :
        /\ pc[t] = "put_ret" /\ loc[t].err = "ok" /\ ph.valueSize = 0
        /\ loc[t].value = << >>
        /\ \A e \in Entries(loc[t].d0, loc[t].h0) : e[1] # loc[t].key
        /\ SlotStatus(Data(fs, ph), ph.numSlots - 1) = 1
        /\ SlotKey(Data(fs, ph), ph.numSlots - 1) = loc[t].key
        /\ SlotStart(ph, ph.numSlots - 1) + 1 + ph.keySize = Len(Data(fs, ph))
        /\ \E k \in InputKeys : Len(k) = ph.keySize /\ Get(fs, ph, k) = Miss

(***************************************************************************)
(* The hash function against its definition.  Fnv1a is 32-bit FNV-1a as    *)
(* published: start from 2166136261; for each byte, XOR it into the hash   *)
(* and multiply by 16777619 modulo 2^32.  It works on the four bytes of    *)
(* the hash, least significant first, where hashKey above works on two     *)
(* 16-bit halves.  SpecHash runs Open, Put, Get and resize of one thread   *)
(* with more keys than Spec and at most HashMaxEntries entries.            *)
(***************************************************************************)
HashMaxEntries == 2

HashKeySizes == {1, 2}

\* the keys of Put, and the keys of Get
BytesKeys(bytes) ==
    {<<a>> : a \in bytes} \cup {<<a, b>> : a \in bytes, b \in bytes}

HashPutKeys == BytesKeys({0, 97, 255})

HashGetKeys == BytesKeys({0, 1, 97, 128, 254, 255})

\* bit i of a
Bit(a, i) == (a \div (2 ^ i)) % 2

\* a XOR b for bytes
Xor8(a, b) ==
    LET x(i) == ((Bit(a, i) + Bit(b, i)) % 2) * (2 ^ i)
    IN  x(0) + x(1) + x(2) + x(3) + x(4) + x(5) + x(6) + x(7)

\* 2166136261 = 0x811C9DC5, least significant byte first
FnvOffsetBasis == <<197, 157, 28, 129>>

\* h * 16777619 modulo 2^32, with 16777619 = 2^24 + 403
FnvMul(h) ==
    LET t1 == h[1] * 403
        t2 == h[2] * 403 + (t1 \div 256)
        t3 == h[3] * 403 + (t2 \div 256)
        t4 == h[4] * 403 + (t3 \div 256) + h[1]
    IN  <<t1 % 256, t2 % 256, t3 % 256, t4 % 256>>

RECURSIVE Fnv1aFrom(_, _)
Fnv1aFrom(h, key) ==
    IF key = << >> THEN h
    ELSE Fnv1aFrom(FnvMul(<<Xor8(h[1], Head(key)), h[2], h[3], h[4]>>), Tail(key))

Fnv1a(key) == Fnv1aFrom(FnvOffsetBasis, key)

\* Fnv1a(key) mod n
Fnv1aMod(key, n) ==
    LET h == Fnv1a(key)
    IN  ((((((h[4] % n) * 256 + h[3]) % n) * 256 + h[2]) % n) * 256 + h[1]) % n

HashInit ==
    /\ fs = FsEmpty
    /\ ph = NoHandle
    /\ life = "none"
    /\ proc = "running"
    /\ mu = [w |-> NoThread, r |-> {}]
    /\ pc = [t \in Threads |-> "idle"]
    /\ loc = [t \in Threads |-> LocIdle]
    /\ opened = [res |-> "none", keySize |-> 0, valueSize |-> 0]
    /\ stored = [k \in HashGetKeys |-> Miss]
    /\ hist = NoSnapshot

\* a Put while the table has fewer than HashMaxEntries entries
HashPutLock(key) ==
    /\ life = "open"
    /\ ph.usedSlots < HashMaxEntries
    /\ PutLock(1, key, << >>)

HashNext ==
    \/ \E keySize \in HashKeySizes : Open(keySize, 0)
    \/ \E key \in HashGetKeys : GetRLock(1, key)
    \/ GetRead(1)
    \/ GetRet(1)
    \/ \E key \in HashPutKeys : HashPutLock(key)
    \/ PutValidate(1)
    \/ PutTry(1)
    \/ PutCount(1)
    \/ PutRet(1)
    \/ RsCreate(1)
    \/ RsRehash(1)
    \/ RsUnmap(1)
    \/ RsRename(1)
    \/ RsReopen(1)

SpecHash == HashInit /\ [][HashNext]_vars

\* the number of slots between the key's home slot and slot j, cyclically
HomeDistance(d, j) ==
    LET n == HeaderOf(d).numSlots
    IN  (j + n - Fnv1aMod(SlotKey(d, j), n)) % n

\* C25: hashing.  The hash computed for the key of every call in progress
\* is the 32-bit FNV-1a hash of its bytes; in every table file, the one a
\* rehash is filling included, each stored key sits at its home slot
\* FNV-1a(key) mod numSlots of that file or behind an unbroken run of
\* occupied slots that begins there; and Get, starting from the same home
\* slot, returns what the last Put of the key stored.
C25_Hashing ==
    /\ \A t \in Threads :
          pc[t] # "idle" =>
              LET h == Fnv1a(loc[t].key)
              IN  hashKey(loc[t].key) = <<h[4] * 256 + h[3], h[2] * 256 + h[1]>>
    /\ \A f \in Tables :
          LET d == fs.ino[f]
              n == HeaderOf(d).numSlots
          IN  \A j \in 0..(n - 1) :
                 SlotStatus(d, j) = 1 =>
                    \A a \in 0..(n - 1) :
                       a < HomeDistance(d, j)
                          => SlotStatus(d, (Fnv1aMod(SlotKey(d, j), n) + a) % n) = 1
    /\ \A t \in Threads :
          pc[t] = "get_ret" => loc[t].got = stored[loc[t].key]

\* the key "a" is being rehashed into a table of four slots: its hash is
\* 0xE40C292C, its home slot in the old table of two slots was 0 and in the
\* new one is 0xE40C292C mod 4
C25_Witness ==
    \E t \in Threads :
        /\ pc[t] = "rs_unmap"
        /\ hashKey(<<97>>) = <<58380, 10540>>
        /\ ph.numSlots = 2 /\ SlotKey(Data(fs, ph), 0) = <<97>>
        /\ SlotStatus(Data(fs, ph), 0) = 1
        /\ loc[t].tmp \in Tables
        /\ HeaderOf(fs.ino[loc[t].tmp]).numSlots = 4
        /\ SlotStatus(fs.ino[loc[t].tmp], 0) = 1
        /\ SlotKey(fs.ino[loc[t].tmp], 0) = <<97>>

\* the magic number of the format description (src/phash.go:26), 0x1A2B3C4D
DocumentedMagic == <<26, 43, 60, 77>>

\* C26: magic number as documented.  Whenever Open has returned a handle,
\* for a file it created or for a file it found, the file at the path
\* begins with the four bytes 1A 2B 3C 4D.
C26_DocumentedMagic ==
    (proc = "running" /\ life = "open" /\ opened.res = "ok")
        => /\ Len(PathFile) >= 4
           /\ Slice(PathFile, 0, 4) = DocumentedMagic

\* no descriptor and no mapping of any file exists
NothingOpen == \A i \in InoIds : fs.fds[i] = 0 /\ fs.maps[i] = 0

\* C27: resize ordering gap.  When resize is about to rename, the old
\* mapping is already unmapped and the old file closed while the path still
\* names the old file; and when Put returns the error of a failed rename,
\* reopen, stat or remap, the handle still names the released mapping and
\* the closed file of before the Put, its numSlots and usedSlots are the old
\* ones, and no descriptor or mapping of the new file is left.
C27_OrderingGap ==
    \A t \in Threads :
        /\ pc[t] = "rs_rename"
              => /\ ~ph.data.live /\ ~ph.file.open
                 /\ fs.maps[ph.data.ino] = 0 /\ fs.fds[ph.file.ino] = 0
                 /\ fs.dir[filePath] = ph.file.ino
                 /\ fs.dir[tmpPath] = loc[t].tmp
        /\ (pc[t] = "put_ret" /\ loc[t].err \in SwapErrors)
              => /\ ph = [loc[t].h0 EXCEPT !.data.live = FALSE, !.file.open = FALSE]
                 /\ ph.numSlots = loc[t].h0.numSlots
                 /\ ph.usedSlots = loc[t].h0.usedSlots
                 /\ ph.numSlots # loc[t].newNumSlots
                 /\ NothingOpen
                 /\ Get(fs, ph, loc[t].key) = Fault
                 /\ IF loc[t].err = "failed to rename temp file"
                    THEN fs.dir[filePath] = ph.file.ino /\ fs.dir[tmpPath] = loc[t].tmp
                    ELSE fs.dir[filePath] = loc[t].tmp /\ fs.dir[tmpPath] = NoIno

\* a Put into a table of two entries returns after the rename, or the remap
\* of the renamed file, failed
C27_Witness ==
    \E t \in Threads :
        /\ pc[t] = "put_ret" /\ loc[t].h0.usedSlots = 2 /\ ~ph.data.live
        /\ loc[t].err \in {"failed to rename temp file", ReopenError("mmap")}
        /\ HeaderOf(fs.ino[loc[t].tmp]).numSlots = 2 * ph.numSlots

\* the positions of a Put inside resize
ResizePcs == {"rs_create", "rs_rehash", "rs_unmap", "rs_rename", "rs_reopen"}

\* a lookup in the bytes of a table file, by the geometry of its own header
FileGet(d, key) ==
    GetProbe(d, HeaderOf(d), key, HashMod(hashKey(key), HeaderOf(d).numSlots), 0)

\* C28: atomic swap.  At every step of a resize, and when Put returns the
\* error of a resize that failed at any of its system calls, the path names
\* a file that is a complete table: its length fits its header, its header
\* counts its occupied slots, and it holds exactly the entries the table
\* held when the Put began, each found by a lookup.  It is the old file,
\* byte for byte, or a table of twice the capacity.
C28_AtomicSwap ==
    \A t \in Threads :
        (\/ pc[t] \in ResizePcs
         \/ pc[t] = "put_ret" /\ loc[t].err \in CreateErrors \cup SwapErrors)
            => /\ fs.dir[filePath] # NoIno
               /\ IsTable(PathFile)
               /\ HeaderOf(PathFile).usedSlots = Cardinality(SlotsWith(PathFile, 1))
               /\ Entries(PathFile, HeaderOf(PathFile))
                     = Entries(loc[t].d0, loc[t].h0)
               /\ \A e \in Entries(loc[t].d0, loc[t].h0) :
                     FileGet(PathFile, e[1]) = Hit(e[2])
               /\ \A k \in InputKeys :
                     Len(k) = loc[t].h0.keySize
                        => FileGet(PathFile, k) = stored[k]
               /\ \/ PathFile = loc[t].d0
                  \/ HeaderOf(PathFile).numSlots = 2 * loc[t].h0.numSlots

\* the new table of eight slots with two entries has been renamed over the
\* path, the handle not yet updated
C28_Witness ==
    \E t \in Threads :
        /\ pc[t] = "rs_reopen"
        /\ HeaderOf(PathFile).numSlots = 8
        /\ Cardinality(Entries(PathFile, HeaderOf(PathFile))) = 2
        /\ PathFile # loc[t].d0
        /\ ph.numSlots = 4

\* the five cached fields of a handle
Geometry(h) ==
    [numSlots  |-> h.numSlots,
     usedSlots |-> h.usedSlots,
     slotSize  |-> h.slotSize,
     keySize   |-> h.keySize,
     valueSize |-> h.valueSize]

\* C29: cached geometry matches the header.  Between calls, on a handle
\* whose mapping is in place, numSlots, usedSlots, slotSize, keySize and
\* valueSize of the handle equal the fields of the mapped header, the
\* mapping is the file at the path and has the length the handle recorded;
\* and when a resize has returned, it is the new header they equal.
C29_CachedGeometry ==
    /\ (Quiet /\ ph.data.live)
          => /\ Geometry(ph) = HeaderOf(Data(fs, ph))
             /\ ph.data.ino = fs.dir[filePath]
             /\ ph.data.len = Len(Data(fs, ph))
    /\ \A t \in Threads :
          (proc = "running" /\ pc[t] = "put_try" /\ loc[t].retry > 0)
             => /\ Geometry(ph) = HeaderOf(Data(fs, ph))
                /\ ph.numSlots # loc[t].h0.numSlots

\* between calls after a Put that resized a table of two entries: the handle
\* and the header both say eight slots and three entries
C29_Witness ==
    /\ Quiet /\ ph.data.live
    /\ ph.numSlots = 8 /\ ph.usedSlots = 3
    /\ HeaderOf(Data(fs, ph)).numSlots = 8
    /\ HeaderOf(Data(fs, ph)).usedSlots = 3

(***************************************************************************)
(* Large values.  SpecWide is Open, Get and Put of one thread on a new     *)
(* file with the code's 1024 initial slots, where the declared sizes are   *)
(* those of Spec's tables or a 4-byte key with a value of 4194299 bytes:   *)
(* slotSize is then 2^22 and 1024 slots of it take 2^32 bytes.  The keys   *)
(* have their home slot in the lower half of the table, so that every      *)
(* offset the model computes stays below 2^31.                             *)
(***************************************************************************)
WideSizes == {<<4, 0>>, <<4, 4194299>>}

WideKeys == {<<0, 0, 0, 2>>, <<0, 0, 0, 3>>, <<1, 2, 3, 4>>}

WideInit ==
    /\ fs = FsEmpty
    /\ ph = NoHandle
    /\ life = "none"
    /\ proc = "running"
    /\ mu = [w |-> NoThread, r |-> {}]
    /\ pc = [t \in Threads |-> "idle"]
    /\ loc = [t \in Threads |-> LocIdle]
    /\ opened = [res |-> "none", keySize |-> 0, valueSize |-> 0]
    /\ stored = [k \in WideKeys |-> Miss]
    /\ hist = NoSnapshot

WideNext ==
    \/ \E s \in WideSizes : FreshOpen(s[1], s[2])
    \/ \E key \in WideKeys : GetRLock(1, key)
    \/ GetRead(1)
    \/ GetRet(1)
    \/ \E key \in WideKeys : PutLock(1, key, << >>)
    \/ PutValidate(1)
    \/ PutTry(1)
    \/ PutCount(1)
    \/ PutRet(1)

SpecWide == WideInit /\ [][WideNext]_vars

\* C30: in-bounds access.  On every table that began as a new file no Get
\* and no Put panics, and the mapping holds the header and all numSlots
\* slots: its length is headerSize plus a whole number of slots, and that
\* number is numSlots, so that headerSize + i*slotSize + slotSize is within
\* the mapping for every i below numSlots.
C30_InBounds ==
    /\ proc = "running"
    /\ (life = "open" /\ ph.data.live)
          => /\ ph.slotSize > 0
             /\ Len(Data(fs, ph)) >= headerSize
             /\ (Len(Data(fs, ph)) - headerSize) % ph.slotSize = 0
             /\ (Len(Data(fs, ph)) - headerSize) \div ph.slotSize = ph.numSlots
             /\ ph.data.len = Len(Data(fs, ph))
             /\ FileSize(fs, fs.dir[filePath]) = Len(Data(fs, ph))

\* C31: no 32-bit wraparound in sizing.  For every handle Open has returned
\* on a new file, the uint32 product numSlots*slotSize is the product of the
\* integers (dividing it by slotSize gives numSlots back), and the file has
\* exactly headerSize plus that many bytes.
C31_NoWraparound ==
    (proc = "running" /\ life = "open" /\ opened.res = "ok")
        => LET p == Mul32(ph.numSlots, ph.slotSize)
           IN  /\ ph.slotSize = 1 + opened.keySize + opened.valueSize
               /\ p[1] < 32768
               /\ Int32(p) \div ph.slotSize = ph.numSlots
               /\ FileSize(fs, fs.dir[filePath]) = headerSize + Int32(p)

(***************************************************************************)
(* The slice Get returns (src/phash.go:258-260).  A Go slice is a view of  *)
(* some memory: ValueBacking says which memory the returned slice views,   *)
(* NoAlias for memory of its own from make, or an offset of the mapping.   *)
(* In SpecCopy thread 1 calls Get and keeps the slice after the call, in   *)
(* loc[1]: got is what the slice held when Get returned it, slotStart the  *)
(* memory it views, exp the bytes of a slice with memory of its own, which *)
(* the caller may change.  Thread 2 calls Put and Close meanwhile.         *)
(***************************************************************************)
NoAlias == -1

\* a mutant: the mapped bytes are returned, data[slotStart+1+keySize : slotStart+slotSize]
ValueBacking_Mapping(d, h, slotStart) == slotStart + 1 + h.keySize

\* val := make([]byte, ph.valueSize)
ValueBacking(d, h, slotStart) == NoAlias

CopyKeys == {<<0>>, <<1>>, <<4>>}

CopyValues == {<<5>>, <<6>>}

\* the byte the caller writes into a slice it was given
CallerByte == 9

\* Get returns the slice; the caller keeps it
CopyGetRet(t) ==
    /\ proc = "running"
    /\ pc[t] = "get_ret"
    /\ mu' = [mu EXCEPT !.r = @ \ {t}]
    /\ pc' = [pc EXCEPT ![t] = "idle"]
    /\ LET p == PutProbe(Data(fs, ph), ph, loc[t].key,
                         HashMod(hashKey(loc[t].key), ph.numSlots), 0)
       IN  loc' = [loc EXCEPT ![t] =
                     [LocIdle EXCEPT !.key = loc[t].key,
                                     !.got = loc[t].got,
                                     !.exp = loc[t].got,
                                     !.slotStart =
                                         IF loc[t].got.found
                                         THEN ValueBacking(Data(fs, ph), ph, p.slotStart)
                                         ELSE NoAlias]]
    /\ UNCHANGED <<fs, ph, life, proc, opened, stored, hist>>

\* the thread holds a slice that a Get hit returned
Holds(t) == pc[t] = "idle" /\ loc[t].got.found

\* the caller sets the first byte of the slice it holds to CallerByte
CallerWrites(t) ==
    /\ proc = "running"
    /\ Holds(t)
    /\ Len(loc[t].got.val) > 0
    /\ IF loc[t].slotStart = NoAlias
       THEN /\ loc' = [loc EXCEPT ![t].exp.val[1] = CallerByte]
            /\ UNCHANGED <<fs, proc>>
       ELSE IF ph.data.live
       THEN /\ fs' = SetData(fs, ph, CopyAt(Data(fs, ph), loc[t].slotStart,
                                            <<CallerByte>>))
            /\ UNCHANGED <<loc, proc>>
       ELSE /\ proc' = "panicked"
            /\ UNCHANGED <<fs, loc>>
    /\ UNCHANGED <<ph, life, mu, pc, opened, stored, hist>>

CopyInit ==
    /\ fs = FsEmpty
    /\ ph = NoHandle
    /\ life = "none"
    /\ proc = "running"
    /\ mu = [w |-> NoThread, r |-> {}]
    /\ pc = [t \in Threads |-> "idle"]
    /\ loc = [t \in Threads |-> LocIdle]
    /\ opened = [res |-> "none", keySize |-> 0, valueSize |-> 0]
    /\ stored = [k \in InputKeys |-> Miss]
    /\ hist = NoSnapshot

CopyNext ==
    \/ Open(1, 1)
    \/ \E key \in CopyKeys : GetRLock(1, key)
    \/ GetRead(1)
    \/ CopyGetRet(1)
    \/ CallerWrites(1)
    \/ \E key \in CopyKeys, value \in CopyValues : PutLock(2, key, value)
    \/ PutValidate(2)
    \/ PutTry(2)
    \/ PutCount(2)
    \/ PutRet(2)
    \/ RsCreate(2)
    \/ RsRehash(2)
    \/ RsUnmap(2)
    \/ RsRename(2)
    \/ RsReopen(2)
    \/ CloseLock(2)
    \/ CloseUnmap(2)
    \/ CloseRet(2)

SpecCopy == CopyInit /\ [][CopyNext]_vars

\* the bytes a reader of the held slice sees now: "fault" for a view of
\* memory that is no longer mapped
HeldBytes(t) ==
    IF loc[t].slotStart = NoAlias THEN loc[t].got.val
    ELSE IF ph.data.live
    THEN Slice(Data(fs, ph), loc[t].slotStart, loc[t].slotStart + Len(loc[t].got.val))
    ELSE "fault"

\* C32: Get returns a copy.  A slice that a Get hit returned views memory of
\* its own: whatever Put, resize and Close do afterwards, a reader of the
\* slice sees the bytes it held when Get returned; and what the caller
\* writes into it leaves the process running and the table as the Puts left
\* it.
C32_GetCopies ==
    /\ proc = "running"
    /\ \A t \in Threads :
          Holds(t) => HeldBytes(t) = loc[t].got.val
    /\ (Quiet /\ ph.data.live) => \A k \in CopyKeys : Get(fs, ph, k) = stored[k]

\* thread 1 holds the value 5 of a key whose value a Put has since changed
\* to 6, the table has been resized and closed since, and the caller has
\* written into its slice
C32_Witness ==
    /\ Holds(1) /\ loc[1].got.val = <<5>> /\ loc[1].exp.val = <<CallerByte>>
    /\ stored[loc[1].key] = Hit(<<6>>)
    /\ ph.numSlots > initialSlots
    /\ life = "closed"

\* C33: at most one resize per Put.  On a table that began as a new file of
\* 1024 slots, every Put of a new key leaves numSlots as it was or doubles
\* it once, and stores its key: usedSlots grows, which it does not when the
\* retry count is exceeded.
C33_OneResize ==
    [][/\ ph'.numSlots \in {ph.numSlots, 2 * ph.numSlots}
       /\ ph'.usedSlots > ph.usedSlots
       /\ ScaleInsert(ph.numSlots, ph.usedSlots, 0)
             \in {<<ph.numSlots, ph.usedSlots + 1>>,
                  <<2 * ph.numSlots, ph.usedSlots + 1>>}]_vars

\* the first Put that resized has returned: 2048 slots, and one entry more
\* than 0.7 * 1024 allows
C33_Witness ==
    /\ ph.numSlots = 2 * freshSlots
    /\ ph.usedSlots = ((7 * freshSlots) \div 10) + 1

\* the slots on the cyclic path from the home slot of the key in slot j of
\* the table d up to slot j
ProbePath(d, j) ==
    LET n    == HeaderOf(d).numSlots
        home == HashMod(hashKey(SlotKey(d, j)), n)
    IN  {(home + a) % n : a \in 0..((j + n - home) % n)}

\* C34: probe-chain invariant.  In every state, in the middle of a Put and
\* of a rehash too, and in every table file, the temporary one included:
\* every slot on the cyclic path from hashKey(k) mod numSlots to an occupied
\* slot holding k is occupied.
C34_ProbeChain ==
    \A f \in Tables :
        \A j \in SlotsWith(fs.ino[f], 1) :
            \A i \in ProbePath(fs.ino[f], j) : SlotStatus(fs.ino[f], i) = 1

\* a table holds a key away from its home slot, behind another key, while a
\* rehash has just copied an entry into the temporary file
C34_Witness ==
    \E t \in Threads :
        /\ pc[t] = "rs_rehash" /\ loc[t].usedCount = 1
        /\ loc[t].tmp \in Tables
        /\ SlotsWith(fs.ino[loc[t].tmp], 1) # {}
        /\ \E j \in SlotsWith(Data(fs, ph), 1) :
              Cardinality(ProbePath(Data(fs, ph), j)) > 1

(***************************************************************************)
(* Calls that wait for the lock.  In Spec a call begins when it takes the  *)
(* lock.  In SpecCalls a thread first calls (GetCall, PutCall, CloseCall),  *)
(* which the caller may do while it holds an open handle, and then waits   *)
(* in ph.mu.RLock() or ph.mu.Lock() until the mutex lets it in             *)
(* (src/phash.go:168, 179, 240).  One thread calls Close.                  *)
(***************************************************************************)
CallKeys == {<<0>>, <<1>>, <<4>>}

CallValues == {<<5>>}

WaitPcs == {"get_wait", "put_wait", "close_wait"}

\* Get is called; the thread goes on to ph.mu.RLock()
GetCall(t, key) ==
    /\ proc = "running"
    /\ life = "open"
    /\ pc[t] = "idle"
    /\ pc' = [pc EXCEPT ![t] = "get_wait"]
    /\ loc' = [loc EXCEPT ![t] = [LocIdle EXCEPT !.key = key]]
    /\ UNCHANGED <<fs, ph, life, proc, mu, opened, stored, hist>>

\* ph.mu.RLock() returns
GetAcquire(t) ==
    /\ proc = "running"
    /\ pc[t] = "get_wait"
    /\ CanRLock
    /\ mu' = [mu EXCEPT !.r = @ \cup {t}]
    /\ pc' = [pc EXCEPT ![t] = "get_read"]
    /\ loc' = [loc EXCEPT ![t].exp = stored[loc[t].key], ![t].expOk = TRUE]
    /\ UNCHANGED <<fs, ph, life, proc, opened, stored, hist>>

\* Put is called; the thread goes on to ph.mu.Lock()
PutCall(t, key, value) ==
    /\ proc = "running"
    /\ life = "open"
    /\ pc[t] = "idle"
    /\ pc' = [pc EXCEPT ![t] = "put_wait"]
    /\ loc' = [loc EXCEPT ![t] = [LocIdle EXCEPT !.key = key, !.value = value]]
    /\ UNCHANGED <<fs, ph, life, proc, mu, opened, stored, hist>>

\* ph.mu.Lock() returns in Put
PutAcquire(t) ==
    /\ proc = "running"
    /\ pc[t] = "put_wait"
    /\ CanLock
    /\ mu' = [mu EXCEPT !.w = t]
    /\ pc' = [pc EXCEPT ![t] = "put_validate"]
    /\ loc' = [loc EXCEPT ![t].d0 = Data(fs, ph), ![t].h0 = ph]
    /\ hist' = NoSnapshot
    /\ UNCHANGED <<fs, ph, life, proc, opened, stored>>

\* Close is called, by the one thread that calls it at a time
CloseCall(t) ==
    /\ proc = "running"
    /\ life = "open"
    /\ pc[t] = "idle"
    /\ \A u \in Threads : pc[u] \notin ClosePcs \cup {"close_wait"}
    /\ pc' = [pc EXCEPT ![t] = "close_wait"]
    /\ UNCHANGED <<fs, ph, life, proc, mu, loc, opened, stored, hist>>

\* ph.mu.Lock() returns in Close
CloseAcquire(t) ==
    /\ proc = "running"
    /\ pc[t] = "close_wait"
    /\ CanLock
    /\ mu' = [mu EXCEPT !.w = t]
    /\ pc' = [pc EXCEPT ![t] = "close_unmap"]
    /\ UNCHANGED <<fs, ph, life, proc, loc, opened, stored, hist>>

CallsInit ==
    /\ fs = FsEmpty
    /\ ph = NoHandle
    /\ life = "none"
    /\ proc = "running"
    /\ mu = [w |-> NoThread, r |-> {}]
    /\ pc = [t \in Threads |-> "idle"]
    /\ loc = [t \in Threads |-> LocIdle]
    /\ opened = [res |-> "none", keySize |-> 0, valueSize |-> 0]
    /\ stored = [k \in InputKeys |-> Miss]
    /\ hist = NoSnapshot

\* the steps of a call once it has the lock
CallSteps(t) ==
    \/ GetRead(t)
    \/ GetRet(t)
    \/ PutValidate(t)
    \/ PutTry(t)
    \/ PutCount(t)
    \/ PutRet(t)
    \/ RsCreate(t)
    \/ RsRehash(t)
    \/ RsUnmap(t)
    \/ RsRename(t)
    \/ RsReopen(t)
    \/ CloseUnmap(t)
    \/ CloseRet(t)

CallsNext ==
    \/ Open(1, 1)
    \/ \E t \in Threads, key \in CallKeys : GetCall(t, key)
    \/ \E t \in Threads : GetAcquire(t)
    \/ \E t \in Threads, key \in CallKeys, value \in CallValues : PutCall(t, key, value)
    \/ \E t \in Threads : PutAcquire(t)
    \/ \E t \in Threads : CloseCall(t)
    \/ \E t \in Threads : CloseAcquire(t)
    \/ \E t \in Threads : CallSteps(t)

SpecCalls == CallsInit /\ [][CallsNext]_vars

\* the positions at which the next step of a Get or Put reads or writes
\* ph.data
AccessPcs == {"get_read", "put_try", "put_count", "rs_rehash"}

\* C35: no access after Close.  While Close holds the lock no Get or Put is
\* in progress; no call has faulted; and no Get or Put, one that was called
\* before Close returned and waited for the lock included, stands before a
\* read or write of ph.data when the mapping has been unmapped.
C35_NoAccessAfterClose ==
    /\ proc = "running"
    /\ \A t \in Threads :
          pc[t] \in ClosePcs => \A u \in Threads : pc[u] \notin GetPcs \cup PutPcs
    /\ \A t \in Threads : pc[t] \in AccessPcs => ph.data.live

(***************************************************************************)
(* Progress.  SpecLive is SpecCalls under fair scheduling.  ph.mu is a     *)
(* sync.RWMutex, which lets neither side starve the other: once a writer   *)
(* waits in Lock, calls of RLock block until that writer has had the       *)
(* mutex, and the readers that were blocked while a writer had the mutex   *)
(* are let in before the next writer.  mu.turn records which side is       *)
(* served first when both wait: the writers after a reader got in, the     *)
(* readers after a writer got in.  Scheduling is fair: a thread inside a   *)
(* call runs, and among the writers that wait none is passed over for ever *)
(* (the mutex of the writers hands over to a waiter that has waited for    *)
(* long).  Both are the strong fairness of the thread's next step.         *)
(* SpecApart is SpecLive for callers that keep Close apart from the other  *)
(* calls: Close is called when no call is pending, and no call is made     *)
(* while Close is pending.                                                 *)
(***************************************************************************)
ClosePending == \E u \in Threads : pc[u] \in ClosePcs \cup {"close_wait"}

ReaderWaits == \E u \in Threads : pc[u] = "get_wait"

WriterWaits == \E u \in Threads : pc[u] \in {"put_wait", "close_wait"}

\* ph.mu.RLock() returns: no writer holds the mutex, and no writer waits
\* for it unless it is the readers' turn
CanRLockTurn == CanRLock /\ (mu.turn = "r" \/ ~WriterWaits)

\* ph.mu.Lock() returns: nobody holds the mutex, and no reader waits for it
\* unless it is the writers' turn
CanLockTurn == CanLock /\ (mu.turn = "w" \/ ~ReaderWaits)

\* ph.mu.RLock() returns
GetAcquireTurn(t) ==
    /\ proc = "running"
    /\ pc[t] = "get_wait"
    /\ CanRLockTurn
    /\ mu' = [mu EXCEPT !.r = @ \cup {t}, !.turn = "w"]
    /\ pc' = [pc EXCEPT ![t] = "get_read"]
    /\ loc' = [loc EXCEPT ![t].exp = stored[loc[t].key], ![t].expOk = TRUE]
    /\ UNCHANGED <<fs, ph, life, proc, opened, stored, hist>>

\* ph.mu.Lock() returns in Put
PutAcquireTurn(t) ==
    /\ proc = "running"
    /\ pc[t] = "put_wait"
    /\ CanLockTurn
    /\ mu' = [mu EXCEPT !.w = t, !.turn = "r"]
    /\ pc' = [pc EXCEPT ![t] = "put_validate"]
    /\ loc' = [loc EXCEPT ![t].d0 = Data(fs, ph), ![t].h0 = ph]
    /\ hist' = NoSnapshot
    /\ UNCHANGED <<fs, ph, life, proc, opened, stored>>

\* ph.mu.Lock() returns in Close
CloseAcquireTurn(t) ==
    /\ proc = "running"
    /\ pc[t] = "close_wait"
    /\ CanLockTurn
    /\ mu' = [mu EXCEPT !.w = t, !.turn = "r"]
    /\ pc' = [pc EXCEPT ![t] = "close_unmap"]
    /\ UNCHANGED <<fs, ph, life, proc, loc, opened, stored, hist>>

LiveInit ==
    /\ fs = FsEmpty
    /\ ph = NoHandle
    /\ life = "none"
    /\ proc = "running"
    /\ mu = [w |-> NoThread, r |-> {}, turn |-> "r"]
    /\ pc = [t \in Threads |-> "idle"]
    /\ loc = [t \in Threads |-> LocIdle]
    /\ opened = [res |-> "none", keySize |-> 0, valueSize |-> 0]
    /\ stored = [k \in InputKeys |-> Miss]
    /\ hist = NoSnapshot

LiveNext ==
    \/ Open(1, 1)
    \/ \E t \in Threads, key \in CallKeys : GetCall(t, key)
    \/ \E t \in Threads : GetAcquireTurn(t)
    \/ \E t \in Threads, key \in CallKeys, value \in CallValues :
          PutCall(t, key, value)
    \/ \E t \in Threads : PutAcquireTurn(t)
    \/ \E t \in Threads : CloseCall(t)
    \/ \E t \in Threads : CloseAcquireTurn(t)
    \/ \E t \in Threads : CallSteps(t)

ApartNext ==
    \/ Open(1, 1)
    \/ \E t \in Threads, key \in CallKeys : ~ClosePending /\ GetCall(t, key)
    \/ \E t \in Threads : GetAcquireTurn(t)
    \/ \E t \in Threads, key \in CallKeys, value \in CallValues :
          ~ClosePending /\ PutCall(t, key, value)
    \/ \E t \in Threads : PutAcquireTurn(t)
    \/ \E t \in Threads : (\A u \in Threads : pc[u] = "idle") /\ CloseCall(t)
    \/ \E t \in Threads : CloseAcquireTurn(t)
    \/ \E t \in Threads : CallSteps(t)

\* the next step of a thread that has called
ThreadStep(t) ==
    \/ GetAcquireTurn(t)
    \/ PutAcquireTurn(t)
    \/ CloseAcquireTurn(t)
    \/ CallSteps(t)

SpecLive ==
    /\ LiveInit
    /\ [][LiveNext]_vars
    /\ \A t \in Threads : SF_vars(ThreadStep(t))

SpecApart ==
    /\ LiveInit
    /\ [][ApartNext]_vars
    /\ \A t \in Threads : SF_vars(ThreadStep(t))

\* who holds ph.mu is who is inside a call: the writer is the one thread
\* inside Put (resize included) or Close, the readers are the threads
\* inside Get, and a thread that waits or is between calls holds nothing
LockHeldByCalls ==
    \A t \in Threads :
          /\ pc[t] \in PutPcs \cup ClosePcs <=> mu.w = t
          /\ pc[t] \in GetPcs <=> t \in mu.r

\* C36: termination and no deadlock.  Under fair scheduling every call of
\* Get, Put and Close returns: a thread that is waiting for the lock or
\* inside a call is later between calls again.  All the way the lock is
\* held by exactly the threads inside a call, resize by the lock of its Put.
\* (Holds under SpecApart; under SpecLive a Get or Put that waited while
\* Close ran ends in a fault and does not return.)
C36_Termination ==
    /\ []LockHeldByCalls
    /\ \A t \in Threads : (pc[t] # "idle") ~> (pc[t] = "idle")

(***************************************************************************)
(* Ownership of descriptors and mappings (src/phash.go:280-284, 325-332,   *)
(* 372-410, 167-175).                                                      *)
(***************************************************************************)
\* the handle's descriptor and mapping are open, both are of the file at
\* the table's path, and they are the only descriptor and the only mapping
\* there are; no file is at the temporary path
OwnsOne ==
    /\ ph.file.open /\ ph.data.live
    /\ ph.file.ino = fs.dir[filePath] /\ ph.data.ino = fs.dir[filePath]
    /\ fs.dir[filePath] # NoIno
    /\ \A i \in InoIds :
          /\ fs.fds[i] = (IF i = ph.file.ino THEN 1 ELSE 0)
          /\ fs.maps[i] = (IF i = ph.data.ino THEN 1 ELSE 0)
    /\ fs.dir[tmpPath] = NoIno

\* resize has returned to putWithRetry
Resized(t) == pc[t] = "put_try" /\ loc[t].retry > 0

\* C37: exclusive ownership.  Between operations an open handle owns exactly
\* one open descriptor and one live mapping, both of the file at the path;
\* when resize has succeeded the old and the temporary descriptor and mapping
\* are released and no file is at the temporary path; after Close the handle
\* owns no descriptor and no mapping.
C37_Ownership ==
    proc = "running" =>
        /\ (life = "open" /\ mu.w = NoThread) => OwnsOne
        /\ \A t \in Threads : Resized(t) => OwnsOne
        /\ life = "closed" =>
              ~ph.file.open /\ ~ph.data.live /\ NothingOpen

\* a Put has resized the table and returned, and the handle is between
\* operations
C37_Witness ==
    /\ Quiet
    /\ \A t \in Threads : pc[t] = "idle"
    /\ ph.numSlots = 2 * initialSlots
    /\ OwnsOne

(***************************************************************************)
(* Two tables.  SpecTwo is the table at filePath, used by thread 1, next   *)
(* to a second table that thread 2 keeps at the path "path.tmp": thread 2  *)
(* opens it on the fresh path, puts one entry and closes it.  The second   *)
(* table has a path of its own; it is also the path resize derives for     *)
(* the temporary file of the first (tmpPath := ph.filePath + ".tmp",       *)
(* src/phash.go:274).                                                      *)
(***************************************************************************)
\* Put of a key into an empty slot without a resize: the slot is written,
\* usedSlots is counted in the header (src/phash.go:210-235)
PutFresh(w, h, slotStart, key, value) ==
    LET w1 == SetData(w, h, WriteSlot(Data(w, h), h.keySize, slotStart, key, value))
    IN  SetData(w1, h, CopyAt(Data(w1, h), 12, PutUint32(h.usedSlots + 1)))

\* thread t opens a table at the fresh path "path.tmp", puts key and value
\* and closes it; it keeps key, value and the nil of its Put
OtherSession(t, key, value) ==
    /\ proc = "running"
    /\ pc[t] = "idle"
    /\ loc[t].err = "none"
    /\ fs.dir[tmpPath] = NoIno
    /\ \E r \in {OpenCallPath(fs, tmpPath, Len(key), Len(value), initialSlots)} :
          /\ r.res = "ok"
          /\ \E p \in {PutProbe(Data(r.w, r.h), r.h, key,
                                HashMod(hashKey(key), r.h.numSlots), 0)} :
                /\ p.kind = "empty"
                /\ ~LoadFactorExceeded(r.h.usedSlots, r.h.numSlots)
                /\ fs' = FileClose(Munmap(PutFresh(r.w, r.h, p.slotStart, key, value),
                                          r.h.data.ino), r.h.file.ino)
    /\ loc' = [loc EXCEPT ![t].key = key, ![t].value = value, ![t].err = "ok"]
    /\ UNCHANGED <<ph, life, proc, mu, pc, opened, stored, hist>>

TwoNext ==
    \/ Open(1, 1)
    \/ \E key \in CallKeys : GetRLock(1, key)
    \/ GetRead(1)
    \/ GetRet(1)
    \/ \E key \in CallKeys, value \in CallValues : PutLock(1, key, value)
    \/ PutValidate(1)
    \/ PutTry(1)
    \/ PutCount(1)
    \/ PutRet(1)
    \/ RsCreate(1)
    \/ RsRehash(1)
    \/ RsUnmap(1)
    \/ RsRename(1)
    \/ RsReopen(1)
    \/ CloseLock(1)
    \/ CloseUnmap(1)
    \/ CloseRet(1)
    \/ \E key \in CallKeys, value \in CallValues : OtherSession(2, key, value)

SpecTwo == CallsInit /\ [][TwoNext]_vars

\* C38: no hidden global state; operations on one table never change
\* another table's file.  Once thread 2 has stored its entry in the table
\* at its own path and closed it, whatever is done to the table at filePath,
\* the file at that path is there and a lookup in it finds the entry.
C38_OtherTableKept ==
    (loc[2].err = "ok" /\ pc[2] = "idle") =>
        /\ fs.dir[tmpPath] # NoIno
        /\ Len(fs.ino[fs.dir[tmpPath]]) >= headerSize
        /\ FileGet(fs.ino[fs.dir[tmpPath]], loc[2].key) = Hit(loc[2].value)

====
